---------------------------- MODULE Spec2Model ----------------------------
(***************************************************************************)
(* A model of vlfd-rs, the host-side driver of the SMIMS VLFD board:       *)
(* the USB session (usb.rs), the configuration register (config.rs), the   *)
(* rolling XOR cipher and the command protocol (device.rs) and the         *)
(* bitstream upload (program.rs).                                          *)
(*                                                                         *)
(* Every API call is one action.  A call threads a context record through  *)
(* the operators that model the functions it calls; the record carries    *)
(* the session's fields, the transfers made so far and the pending        *)
(* result ("run" while no `?` has returned early).  What the device and   *)
(* the transport answer during the call is the call's input, `env`.       *)
(***************************************************************************)
EXTENDS Integers, Sequences, FiniteSets, TLC

VARIABLES
    handle_open,    \* UsbDevice.handle.is_some()
    config,         \* Device.config.words : [0..63 -> u16]
    table,          \* Device.encryption.table : [0..31 -> u16]
    encode_index,   \* Device.encryption.encode_index
    decode_index,   \* Device.encryption.decode_index
    life,           \* history: the lifecycle stage the session has reached
    op,             \* the API call that has just returned ("none": idle)
    result,         \* its result: "ok" or the error
    log,            \* the transfers and host-side steps of that call, in order
    arg,            \* the call's input buffer (transfer_io: write_buffer)
    out,            \* the buffers as the call leaves them
    sync_pc,        \* sync_delay, step by step: the position in its loop
    clock,          \* ticks elapsed since sync_delay's Instant::now()
    sync_buffer,    \* sync_delay's one-byte buffer
    transfer,       \* bulk_read / bulk_write, step by step: the loop over offset
    hotplug         \* the hotplug listener: its registration, flag and two threads

vars == << handle_open, config, table, encode_index, decode_index, life,
           op, result, log, arg, out, sync_pc, clock, sync_buffer,
           transfer, hotplug >>

session_vars == << handle_open, config, table, encode_index, decode_index, life >>
call_vars    == << op, result, log, arg, out >>
sync_vars    == << sync_pc, clock, sync_buffer >>
step_vars    == << transfer, hotplug >>

-----------------------------------------------------------------------------
(* 16-bit words *)

WordMax == 65535

RECURSIVE XorBits(_, _, _)
\* a ^ b on n-bit numbers, bit by bit
XorBits(a, b, n) ==
    IF n = 0 THEN 0
    ELSE (((a % 2) + (b % 2)) % 2) + 2 * XorBits(a \div 2, b \div 2, n - 1)

\* a ^ b on 4-bit numbers, tabulated
XorNibble == [a \in 0..15 |-> [b \in 0..15 |-> XorBits(a, b, 4)]]

\* a ^ b on u16, nibble by nibble (x ^ 0 = x and x ^ x = 0 are taken directly)
Xor16(a, b) ==
    IF a = 0 THEN b
    ELSE IF b = 0 THEN a
    ELSE IF a = b THEN 0
    ELSE   XorNibble[a % 16][b % 16]
         + 16 * XorNibble[(a \div 16) % 16][(b \div 16) % 16]
         + 256 * XorNibble[(a \div 256) % 16][(b \div 256) % 16]
         + 4096 * XorNibble[(a \div 4096) % 16][(b \div 4096) % 16]

\* !a on u16
Not16(a) == WordMax - a

RECURSIVE OrBits(_, _, _)
\* a | b on n-bit numbers, bit by bit
OrBits(a, b, n) ==
    IF n = 0 THEN 0
    ELSE (IF (a % 2) + (b % 2) > 0 THEN 1 ELSE 0) + 2 * OrBits(a \div 2, b \div 2, n - 1)

\* a | b on 4-bit numbers, tabulated
OrNibble == [a \in 0..15 |-> [b \in 0..15 |-> OrBits(a, b, 4)]]

\* a | b on u16, nibble by nibble
Or16(a, b) ==
    IF a = 0 THEN b
    ELSE IF b = 0 THEN a
    ELSE   OrNibble[a % 16][b % 16]
         + 16 * OrNibble[(a \div 16) % 16][(b \div 16) % 16]
         + 256 * OrNibble[(a \div 256) % 16][(b \div 256) % 16]
         + 4096 * OrNibble[(a \div 4096) % 16][(b \div 4096) % 16]

\* a u32 is kept as its two 16-bit halves
\* (j as u32) << n for a u16 j and 16 <= n < 32
Shl32(j, n) == [hi |-> (j * (2 ^ (n - 16))) % (WordMax + 1), lo |-> 0]

\* a | b on u32
Or32(a, b) == [hi |-> Or16(a.hi, b.hi), lo |-> Or16(a.lo, b.lo)]

\* a >> n on u32, 0 < n < 16
Shr32(a, n) ==
    [hi |-> a.hi \div (2 ^ n),
     lo |-> ((a.hi % (2 ^ n)) * (2 ^ (16 - n))) + (a.lo \div (2 ^ n))]

-----------------------------------------------------------------------------
(* config.rs: the configuration register *)

WORD_COUNT == 64

ZeroWords == [i \in 0..(WORD_COUNT - 1) |-> 0]

\* Config::default / Config::new
Config_new == ZeroWords

smims_version_raw(words) == words[32]

fifo_size(words) == words[33]

has_state_flag(words, mask) == (words[37] \div mask) % 2 = 1

vericomm_ability(words) == has_state_flag(words, 1)

is_programmed(words) == words[48] % 2 = 1

vericomm_clock_high_delay(words) == words[0]

set_vericomm_clock_high_delay(words, delay) == [words EXCEPT ![0] = delay]

vericomm_clock_low_delay(words) == words[1]

set_vericomm_clock_low_delay(words, delay) == [words EXCEPT ![1] = delay]

\* (words[2] >> 4) & 0x000f
vericomm_isv(words) == (words[2] \div 16) % 16

\* value & 0x0f, shifted left 4, or'ed with bit 0 of the old word
set_vericomm_isv(words, value) ==
    [words EXCEPT ![2] = ((value % 16) * 16) + (words[2] % 2)]

vericomm_clock_check_enabled(words) == words[2] % 2 = 1

set_vericomm_clock_check_enabled(words, enabled) ==
    [words EXCEPT ![2] = IF enabled THEN @ + (1 - (@ % 2)) ELSE @ - (@ % 2)]

\* words[3] & 0x00ff
veri_sdk_channel_selector(words) == words[3] % 256

\* (words[3] & 0xff00) | channel
set_veri_sdk_channel_selector(words, channel) ==
    [words EXCEPT ![3] = ((@ \div 256) * 256) + channel]

\* words[3] >> 8
mode_selector(words) == words[3] \div 256

\* set_mode_selector without the mask that keeps the low byte
set_mode_selector_unmasked(words, mode) == [words EXCEPT ![3] = mode * 256]

set_mode_selector(words, mode) ==
    [words EXCEPT ![3] = (@ % 256) + (mode * 256)]

flash_begin_block_addr(words) == words[4]

set_flash_begin_block_addr(words, addr) == [words EXCEPT ![4] = addr]

flash_begin_cluster_addr(words) == words[5]

set_flash_begin_cluster_addr(words, addr) == [words EXCEPT ![5] = addr]

flash_read_end_block_addr(words) == words[6]

set_flash_read_end_block_addr(words, addr) == [words EXCEPT ![6] = addr]

flash_read_end_cluster_addr(words) == words[7]

set_flash_read_end_cluster_addr(words, addr) == [words EXCEPT ![7] = addr]

licence_key(words) == words[31]

security_key(words) == words[31]

set_licence_key(words, key) == [words EXCEPT ![31] = key]

-----------------------------------------------------------------------------
(* device.rs: EncryptionState *)

TABLE_LEN == 32

ZeroTable == [i \in 0..(TABLE_LEN - 1) |-> 0]

RECURSIVE decode_from(_, _)
\* the loop of decode_table from idx on: table[idx] ^= table[idx - 1]
decode_from(t, idx) ==
    IF idx >= TABLE_LEN THEN t
    ELSE decode_from([t EXCEPT ![idx] = Xor16(@, t[idx - 1])], idx + 1)

\* variant: every word is XORed with the raw word before it, not the decoded one
decode_table_raw_previous(t) ==
    [i \in 0..(TABLE_LEN - 1) |-> IF i = 0 THEN Not16(t[0]) ELSE Xor16(t[i], t[i - 1])]

\* EncryptionState::decode_table, without the reset of the indices
decode_table(t) == decode_from([t EXCEPT ![0] = Not16(@)], 1)

\* the loop shared by encrypt_words and decrypt_words over key = table[base .. base+16]:
\*   *word ^= key[index]; index = (index + 1) & 0x0f
\* The k-th word (from 1) meets the index advanced k - 1 times.
xor_words(t, base, index, buffer) ==
    [buffer |-> [k \in 1..Len(buffer) |->
                    Xor16(buffer[k], t[base + ((index + k - 1) % 16)])],
     index  |-> (index + Len(buffer)) % 16]

\* encrypt_words reading the other half of the table
encrypt_words_swapped(t, index, buffer) == xor_words(t, 16, index, buffer)

\* encrypt_words starting every call at key[0]
encrypt_words_restart(t, index, buffer) ==
    [xor_words(t, 0, 0, buffer) EXCEPT !.index = (index + Len(buffer)) % 16]

\* EncryptionState::encrypt_words: key = &table[0..16]
encrypt_words(t, index, buffer) == xor_words(t, 0, index, buffer)

\* EncryptionState::decrypt_words: key = &table[16..32]
decrypt_words(t, index, buffer) == xor_words(t, 16, index, buffer)

-----------------------------------------------------------------------------
(* Conversions between the arrays of the code (indexed from 0) and the      *)
(* buffers that cross the transport (sequences)                             *)

WordsToSeq(words) == [k \in 1..WORD_COUNT |-> words[k - 1]]

SeqToWords(s) == [i \in 0..(WORD_COUNT - 1) |-> s[i + 1]]

TableToSeq(t) == [k \in 1..TABLE_LEN |-> t[k - 1]]

-----------------------------------------------------------------------------
(* constants.rs *)

\* constants::SMIMS_VERSION, the minimum firmware version enter_io_mode accepts
SMIMS_VERSION == 1792

-----------------------------------------------------------------------------
(* The context of a call *)

\* The context a call starts from: the session's fields, nothing transferred yet.
\*   n: bulk transfers made, h: handshakes completed, r: configuration reads done
Ctx(env) ==
    [open |-> handle_open, config |-> config, table |-> table,
     enc |-> encode_index, dec |-> decode_index, life |-> life,
     log |-> << >>, res |-> "run", n |-> 0, h |-> 0, r |-> 0,
     wbuf |-> << >>, rbuf |-> << >>, env |-> env]

\* no `?` has returned early yet
Running(c) == c.res = "run"

\* return Err(e)
Fail(c, e) == [c EXCEPT !.res = e]

\* one entry of the call's log; `life` is the lifecycle stage when it happens
Event(c, ep, dir, data, ok) ==
    [ep |-> ep, dir |-> dir, data |-> data, ok |-> ok, life |-> c.life]

Emit(c, ev) == [c EXCEPT !.log = Append(@, ev)]

\* let v = ...; F(v)
Bind(v, F(_)) == F(v)

-----------------------------------------------------------------------------
(* usb.rs: UsbDevice *)

\* UsbDevice::open: a no-op when open; otherwise the handle is stored only when
\* open_device_with_vid_pid, reset, claim_interface and clear_halt all succeed
usb_open(c) ==
    IF ~Running(c) \/ c.open THEN c
    ELSE IF c.env.open = "ok"
         THEN LET d == [c EXCEPT !.open = TRUE, !.life = "Open"]
              IN  Emit(d, Event(d, "Handle", "open", << >>, TRUE))
         ELSE Fail(c, c.env.open)

\* UsbDevice::close returning every failure of release_interface
usb_close_strict(c) ==
    IF ~Running(c) \/ ~c.open THEN c
    ELSE LET d == [c EXCEPT !.open = FALSE, !.life = "Closed"]
             e == Emit(d, Event(c, "Handle", "close", << >>, c.env.release # "Other"))
         IN  IF c.env.release = "ok" THEN e ELSE Fail(e, "Usb")

\* UsbDevice::close: handle.take(), then release_interface; NoDevice is tolerated
usb_close(c) ==
    IF ~Running(c) \/ ~c.open THEN c
    ELSE LET d == [c EXCEPT !.open = FALSE, !.life = "Closed"]
             e == Emit(d, Event(c, "Handle", "close", << >>, c.env.release # "Other"))
         IN  IF c.env.release \in {"ok", "NoDevice"} THEN e ELSE Fail(e, "Usb")

\* Drop for UsbDevice: let _ = self.close(); the session's fields go with it,
\* and what is used next is a Device as Device::new() makes it
usb_drop(c) ==
    Bind(usb_close(c), LAMBDA d :
        [d EXCEPT !.res = "run", !.config = Config_new, !.table = ZeroTable,
                  !.enc = 0, !.dec = 0])

\* bulk_read / bulk_write as one transfer call: it moves the whole buffer or
\* returns the error the transport reports; an empty buffer moves nothing
bulk(c, ep, dir, data) ==
    IF data = << >> THEN c
    ELSE IF c.env.fail = c.n
         THEN Fail(Emit([c EXCEPT !.n = @ + 1],
                        Event(c, ep, dir, IF dir = "w" THEN data ELSE << >>, FALSE)),
                   c.env.kind)
         ELSE Emit([c EXCEPT !.n = @ + 1], Event(c, ep, dir, data, TRUE))

\* write_bytes without the test of the handle
write_bytes_unchecked(c, ep, data) ==
    IF ~Running(c) THEN c ELSE bulk(c, ep, "w", data)

\* UsbDevice::write_bytes / write_words
write_bytes(c, ep, data) ==
    IF ~Running(c) THEN c
    ELSE IF ~c.open THEN Fail(c, "DeviceNotOpen")
    ELSE bulk(c, ep, "w", data)

\* UsbDevice::read_bytes / read_words; `data` is what the device sends
read_bytes(c, ep, data) ==
    IF ~Running(c) THEN c
    ELSE IF ~c.open THEN Fail(c, "DeviceNotOpen")
    ELSE bulk(c, ep, "r", data)

-----------------------------------------------------------------------------
(* device.rs: the command protocol *)

RECURSIVE sync_loop(_, _)
\* the loop of sync_delay at its i-th round.  The device answers zero to the
\* first env.zeros probes; the handshake numbered env.timeout finds the
\* deadline passed after them, every other one then reads env.ready
sync_loop(c, i) ==
    IF ~Running(c) THEN c
    ELSE IF c.env.timeout = c.h /\ i >= c.env.zeros THEN Fail(c, "Timeout")
    ELSE Bind(read_bytes(write_bytes(c, "Command", << 0 >>), "Sync",
                         << IF i < c.env.zeros THEN 0 ELSE c.env.ready >>),
              LAMBDA d :
                  IF ~Running(d) THEN d
                  ELSE IF i >= c.env.zeros /\ c.env.ready # 0 THEN [d EXCEPT !.h = @ + 1]
                  ELSE sync_loop(d, i + 1))

\* sync_delay that returns Ok at once, without a probe
sync_delay_skipped(c) == c

\* Device::sync_delay
sync_delay(c) == sync_loop(c, 0)

\* sync_delay()?; usb.write_bytes(Endpoint::Command, code)
command(c, code) == write_bytes(sync_delay(c), "Command", code)

\* Device::reset_engine
reset_engine(c) == write_bytes(c, "Command", << 2 >>)

\* Device::command_active
command_active(c) == command(c, << 1, 0 >>)

\* Device::activate_fpga_programmer .. Device::activate_flash_write
activate(c, code) ==
    Bind(command(c, code),
         LAMBDA d : IF Running(d) THEN [d EXCEPT !.life = "ModeActive"] ELSE d)

ActivateCodes == { << 1, 2 >>, << 1, 3 >>, << 1, 8 >>, << 1, 9 >>, << 1, 10 >>,
                   << 1, 11 >>, << 1, 4 >>, << 1, 5 >>, << 1, 21 >> }

activate_fpga_programmer(c) == activate(c, << 1, 2 >>)

activate_vericomm(c) == activate(c, << 1, 3 >>)

\* Device::encrypt on the call's write buffer
encrypt(c, buffer) ==
    IF ~Running(c) THEN c
    ELSE
    Bind(encrypt_words(c.table, c.enc, buffer),
         LAMBDA e : Emit([c EXCEPT !.enc = e.index, !.wbuf = e.buffer],
                         Event(c, "Host", "encrypt", e.buffer, TRUE)))

\* Device::decrypt on the call's read buffer
decrypt(c, buffer) ==
    IF ~Running(c) THEN c
    ELSE
    Bind(decrypt_words(c.table, c.dec, buffer),
         LAMBDA e : Emit([c EXCEPT !.dec = e.index, !.rbuf = e.buffer],
                         Event(c, "Host", "decrypt", e.buffer, TRUE)))

\* Device::read_encrypt_table: the words land in encryption.table itself, so a
\* read that fails part-way leaves the first env.partial words overwritten
read_encrypt_table(c) ==
    Bind(command(c, << 1, 15 >>), LAMBDA c1 :
    Bind(read_bytes(c1, "FifoRead", TableToSeq(c.env.raw)), LAMBDA c2 :
        IF Running(c2) THEN [c2 EXCEPT !.table = c.env.raw]
        ELSE IF Running(c1) /\ c1.open
             THEN [c2 EXCEPT !.table =
                      [i \in 0..(TABLE_LEN - 1) |->
                          IF i < c.env.partial THEN c.env.raw[i] ELSE c.table[i]]]
             ELSE c2))

\* variant: decode_table without reset_indices()
decode_step_cursors_kept(c) ==
    IF ~Running(c) THEN c
    ELSE Emit([c EXCEPT !.table = decode_table(@)],
              Event(c, "Host", "decode_table", << >>, TRUE))

\* self.encryption.decode_table(): the transform, then reset_indices()
decode_step(c) ==
    IF ~Running(c) THEN c
    ELSE Emit([c EXCEPT !.table = decode_table(@), !.enc = 0, !.dec = 0],
              Event(c, "Host", "decode_table", << >>, TRUE))

\* What the device sends for a configuration read: its register, each word
\* XORed with the key word the host's decode cursor stands at.
DeviceWire(c) ==
    [k \in 1..WORD_COUNT |->
        Xor16((IF c.r < Len(c.env.regs) THEN c.env.regs[c.r + 1] ELSE ZeroWords)[k - 1],
              c.table[16 + ((c.dec + k - 1) % 16)])]

\* read_config that decrypts and stores the words before command_active
read_config_stored_early(c) ==
    Bind(command(c, << 1, 1 >>), LAMBDA c1 :
    Bind(DeviceWire(c1), LAMBDA wire :
    Bind(read_bytes(c1, "FifoRead", wire), LAMBDA c2 :
        IF ~Running(c2) THEN c2
        ELSE Bind(decrypt(c2, wire), LAMBDA d :
                 command_active([d EXCEPT !.config = SeqToWords(d.rbuf), !.r = @ + 1])))))

\* Device::read_config
read_config(c) ==
    Bind(command(c, << 1, 1 >>), LAMBDA c1 :
    Bind(DeviceWire(c1), LAMBDA wire :
    Bind(command_active(read_bytes(c1, "FifoRead", wire)), LAMBDA c2 :
        IF ~Running(c2) THEN c2
        ELSE Bind(decrypt(c2, wire), LAMBDA d :
                 [d EXCEPT !.config = SeqToWords(d.rbuf), !.r = @ + 1]))))

\* write_config that encrypts the register in place, not a copy of it
write_config_in_place(c) ==
    Bind(sync_delay(c), LAMBDA c1 :
        IF ~Running(c1) THEN c1
        ELSE Bind(encrypt(c1, WordsToSeq(c1.config)), LAMBDA c2 :
                 command_active(
                     write_bytes(write_bytes([c2 EXCEPT !.config = SeqToWords(c2.wbuf)],
                                             "Command", << 1, 17 >>),
                                 "FifoWrite", c2.wbuf))))

\* Device::write_config
write_config(c) ==
    Bind(sync_delay(c), LAMBDA c1 :
        IF ~Running(c1) THEN c1
        ELSE Bind(encrypt(c1, WordsToSeq(c1.config)), LAMBDA c2 :
                 command_active(
                     write_bytes(write_bytes(c2, "Command", << 1, 17 >>),
                                 "FifoWrite", c2.wbuf))))

\* Device::initialize
initialize(c) ==
    Bind(read_config(decode_step(read_encrypt_table(c))), LAMBDA d :
        IF Running(d) /\ d.life = "Open" THEN [d EXCEPT !.life = "Initialized"] ELSE d)

\* ensure_session that initializes only a session it has just opened
ensure_session_once(c) ==
    IF ~Running(c) THEN c ELSE IF ~c.open THEN initialize(usb_open(c)) ELSE c

\* Device::ensure_session
ensure_session(c) ==
    IF ~Running(c) THEN c
    ELSE initialize(IF ~c.open THEN usb_open(c) ELSE c)

\* enter_io_mode's use of the settings: the licence key if there is one, then
\* the five setters in the order of the source
apply_settings(words, settings) ==
    set_mode_selector(
        set_vericomm_clock_check_enabled(
            set_vericomm_isv(
                set_vericomm_clock_low_delay(
                    set_vericomm_clock_high_delay(
                        IF settings.has_licence_key
                        THEN set_licence_key(words, settings.licence_key) ELSE words,
                        settings.clock_high_delay),
                    settings.clock_low_delay),
                settings.vericomm_isv),
            settings.clock_check_enabled),
        settings.mode_selector)

\* the three checks with the version tested last
check_preconditions_reordered(c) ==
    IF ~Running(c) THEN c
    ELSE IF ~is_programmed(c.config) THEN Fail(c, "NotProgrammed")
    ELSE IF ~vericomm_ability(c.config) THEN Fail(c, "FeatureUnavailable")
    ELSE IF smims_version_raw(c.config) < SMIMS_VERSION THEN Fail(c, "VersionMismatch")
    ELSE c

\* the three checks of enter_io_mode on the register, in the order of the source
check_preconditions(c) ==
    IF ~Running(c) THEN c
    ELSE IF smims_version_raw(c.config) < SMIMS_VERSION THEN Fail(c, "VersionMismatch")
    ELSE IF ~is_programmed(c.config) THEN Fail(c, "NotProgrammed")
    ELSE IF ~vericomm_ability(c.config) THEN Fail(c, "FeatureUnavailable")
    ELSE c

\* enter_io_mode with the three checks after the write and the activation
enter_io_mode_checked_late(c, settings) ==
    Bind(ensure_session(c), LAMBDA c1 :
        check_preconditions(
            activate_vericomm(
                write_config([c1 EXCEPT !.config = apply_settings(@, settings)]))))

\* Device::enter_io_mode
enter_io_mode(c, settings) ==
    Bind(check_preconditions(ensure_session(c)), LAMBDA c2 :
        IF ~Running(c2) THEN c2
        ELSE activate_vericomm(
                 write_config([c2 EXCEPT !.config = apply_settings(@, settings)])))

\* variant: read_buffer is decrypted whether or not the transfers succeeded
transfer_io_always_decrypts(c, write_buffer) ==
    Bind(encrypt(c, write_buffer), LAMBDA c1 :
    Bind(read_bytes(write_bytes(c1, "FifoWrite", c1.wbuf), "FifoRead", c.env.rx),
         LAMBDA c2 : [decrypt([c2 EXCEPT !.res = "run"], c.env.rx) EXCEPT !.res = c2.res]))

\* Device::transfer_io; the device sends env.rx into read_buffer
transfer_io(c, write_buffer) ==
    Bind(encrypt(c, write_buffer), LAMBDA c1 :
    Bind(read_bytes(write_bytes(c1, "FifoWrite", c1.wbuf), "FifoRead", c.env.rx),
         LAMBDA c2 : IF Running(c2) THEN decrypt(c2, c.env.rx) ELSE c2))

\* exit_io_mode that leaves the transport open
exit_io_mode_unclosed(c) ==
    IF ~c.open THEN c ELSE command_active(c)

\* Device::exit_io_mode
exit_io_mode(c) ==
    IF ~c.open THEN c ELSE usb_close(command_active(c))

-----------------------------------------------------------------------------
(* program.rs *)

HexDigits == << "0", "1", "2", "3", "4", "5", "6", "7", "8", "9",
                "a", "b", "c", "d", "e", "f" >>

UpperDigits == << "A", "B", "C", "D", "E", "F" >>

\* remap_hex: the nibble of a hexadecimal digit, -1 for None
remap_hex(byte) ==
    IF \E i \in 1..16 : HexDigits[i] = byte
    THEN (CHOOSE i \in 1..16 : HexDigits[i] = byte) - 1
    ELSE IF \E i \in 1..6 : UpperDigits[i] = byte
         THEN (CHOOSE i \in 1..6 : UpperDigits[i] = byte) + 9
         ELSE -1

RECURSIVE load_line_unflushed(_, _, _, _)
\* load_line without the push of the accumulator at the end of the line
load_line_unflushed(bytes, accumulator, has_nibble, data) ==
    IF bytes = << >> \/ Head(bytes) \in {" ", "\t"}
    THEN [ok |-> TRUE, data |-> data]
    ELSE IF Head(bytes) = "_"
         THEN load_line_unflushed(Tail(bytes), 0, FALSE, Append(data, accumulator))
         ELSE IF remap_hex(Head(bytes)) < 0 THEN [ok |-> FALSE, data |-> data]
              ELSE load_line_unflushed(Tail(bytes),
                             ((accumulator * 16) % (WordMax + 1)) + remap_hex(Head(bytes)),
                             TRUE, data)

RECURSIVE load_line(_, _, _, _)
\* the loop of load_bitfile over the bytes of one line, then its final flush
load_line(bytes, accumulator, has_nibble, data) ==
    IF bytes = << >> \/ Head(bytes) \in {" ", "\t"}
    THEN [ok |-> TRUE, data |-> IF has_nibble THEN Append(data, accumulator) ELSE data]
    ELSE IF Head(bytes) = "_"
         THEN load_line(Tail(bytes), 0, FALSE, Append(data, accumulator))
         ELSE IF remap_hex(Head(bytes)) < 0 THEN [ok |-> FALSE, data |-> data]
              ELSE load_line(Tail(bytes),
                             ((accumulator * 16) % (WordMax + 1)) + remap_hex(Head(bytes)),
                             TRUE, data)

RECURSIVE load_lines(_, _)
\* the loop of load_bitfile over the lines of the file
load_lines(lines, data) ==
    IF lines = << >> THEN [ok |-> TRUE, data |-> data]
    ELSE Bind(load_line(Head(lines), 0, FALSE, data), LAMBDA l :
             IF l.ok THEN load_lines(Tail(lines), l.data) ELSE l)

\* load_bitfile: the decoded words, or the error
load_bitfile(file) ==
    IF ~file.readable THEN [err |-> "Io", data |-> << >>]
    ELSE Bind(load_lines(file.lines, << >>), LAMBDA l :
             IF ~l.ok \/ l.data = << >> THEN [err |-> "InvalidBitfile", data |-> << >>]
             ELSE [err |-> "ok", data |-> l.data])

\* fifo_size().max(1), the depth not doubled
chunk_len_undoubled(words) == IF fifo_size(words) > 1 THEN fifo_size(words) ELSE 1

\* fifo_size().saturating_mul(2).max(1)
chunk_len(words) == IF fifo_size(words) * 2 > 1 THEN fifo_size(words) * 2 ELSE 1

RECURSIVE write_chunks_whole_only(_, _, _)
\* variant: chunks_exact, a remainder shorter than a chunk is not written
write_chunks_whole_only(c, data, len) ==
    IF ~Running(c) \/ Len(data) < len THEN c
    ELSE write_chunks_whole_only(write_bytes(c, "FifoWrite", SubSeq(data, 1, len)),
                                 SubSeq(data, len + 1, Len(data)), len)

RECURSIVE write_chunks(_, _, _)
\* for chunk in program_data.chunks(chunk_len) { write_words(FifoWrite, chunk)? }
write_chunks(c, data, len) ==
    IF ~Running(c) \/ data = << >> THEN c
    ELSE IF Len(data) <= len THEN write_bytes(c, "FifoWrite", data)
    ELSE write_chunks(write_bytes(c, "FifoWrite", SubSeq(data, 1, len)),
                      SubSeq(data, len + 1, Len(data)), len)

\* program without the final test of the programmed bit
program_verify_skipped(c) == c

\* the check that ends Programmer::program, on the register just re-read
program_verify(c) ==
    IF ~Running(c) THEN c
    ELSE IF ~is_programmed(c.config) THEN Fail(c, "NotProgrammed") ELSE c

\* variant: the session is opened and initialized before the file is decoded
program_session_first(c, file) ==
    Bind(ensure_session(c), LAMBDA c1 :
    Bind(load_bitfile(file), LAMBDA f :
        IF ~Running(c1) THEN c1
        ELSE IF f.err # "ok" THEN Fail(c1, f.err)
        ELSE Bind(activate_fpga_programmer(encrypt(c1, f.data)),
                  LAMBDA c2 :
                      program_verify(read_config(command_active(
                          write_chunks(c2, c2.wbuf, chunk_len(c2.config))))))))

\* variant: the programmer is activated before the bitstream is encrypted
program_activated_first(c, file) ==
    Bind(load_bitfile(file), LAMBDA f :
        IF f.err # "ok" THEN Fail(c, f.err)
        ELSE Bind(encrypt(activate_fpga_programmer(ensure_session(c)), f.data),
                  LAMBDA c2 :
                      program_verify(read_config(command_active(
                          write_chunks(c2, c2.wbuf, chunk_len(c2.config)))))))

\* Programmer::program
program(c, file) ==
    Bind(load_bitfile(file), LAMBDA f :
        IF f.err # "ok" THEN Fail(c, f.err)
        ELSE Bind(activate_fpga_programmer(encrypt(ensure_session(c), f.data)),
                  LAMBDA c2 :
                      program_verify(read_config(command_active(
                          write_chunks(c2, c2.wbuf, chunk_len(c2.config)))))))

-----------------------------------------------------------------------------
(* device.rs: licence_gen *)

\* j >>= i; j = (j >> 4) | (j & 0x000f), on a u16 j
licence_fold(j, i) ==
    Or16((j \div (2 ^ i)) \div 16, (j \div (2 ^ i)) % 16)

\* temp after the four groups: temp |= (j as u32) << 16, 20, 24, 28
licence_temp(key, customer_id) ==
    Or32(Or32(Or32(
        Shl32(licence_fold((customer_id % 16) * 16, key % 4), 16),
        Shl32(licence_fold(((customer_id \div 16) % 16) * 16, (key \div 16) % 4), 20)),
        Shl32(licence_fold(((customer_id \div 256) % 16) * 16, (key \div 256) % 4), 24)),
        Shl32(licence_fold((customer_id \div 4096) * 16, (key \div 4096) % 4), 28))

\* licence_gen without the final complement
licence_gen_uncomplemented(key, customer_id) ==
    Bind(Shr32(licence_temp(key, customer_id), 11), LAMBDA temp :
        Or16(temp.hi, temp.lo))

\* licence_gen: temp >>= 11; !((temp >> 16) | (temp & 0x0000ffff)) as u16
licence_gen(key, customer_id) ==
    Bind(Shr32(licence_temp(key, customer_id), 11), LAMBDA temp :
        Not16(Or16(temp.hi, temp.lo)))

-----------------------------------------------------------------------------
(* The step-level state of a session on which no bulk call is under way and *)
(* no hotplug listener was registered                                        *)

\* no bulk_read / bulk_write is running
NoTransfer ==
    [pc |-> "idle", dir |-> "none", len |-> 0, offset |-> 0, calls |-> 0, moved |-> 0]

\* no HotplugRegistration exists
NoListener ==
    [registered |-> FALSE, running |-> FALSE, poller |-> "none", dropper |-> "none",
     plugged |-> 0, pending |-> << >>, selected |-> "none", delivered |-> << >>,
     stale |-> 0]

-----------------------------------------------------------------------------
(* The calls as actions *)

Idle == op = "none"

\* the call `name` returns with context c (c is evaluated once, then stored)
Commit(c, name, input) ==
    \E d \in {c} :
        /\ handle_open' = d.open
        /\ config' = d.config
        /\ table' = d.table
        /\ encode_index' = d.enc
        /\ decode_index' = d.dec
        /\ life' = d.life
        /\ op' = name
        /\ result' = IF d.res = "run" THEN "ok" ELSE d.res
        /\ log' = d.log
        /\ arg' = input
        /\ out' = [w |-> d.wbuf, r |-> d.rbuf]
        /\ UNCHANGED << sync_vars, step_vars >>

\* the caller takes the result; the session is idle until the next call
Return ==
    /\ ~Idle
    /\ sync_pc \in {"idle", "done"}
    /\ transfer.pc \in {"idle", "done"}
    /\ op' = "none"
    /\ result' = "none"
    /\ log' = << >>
    /\ arg' = << >>
    /\ out' = [w |-> << >>, r |-> << >>]
    /\ sync_pc' = "idle"
    /\ clock' = 0
    /\ sync_buffer' = 0
    /\ transfer' = NoTransfer
    /\ UNCHANGED << session_vars, hotplug >>

Open(env) == Idle /\ Commit(usb_open(Ctx(env)), "open", << >>)

Close(env) == Idle /\ Commit(usb_close(Ctx(env)), "close", << >>)

\* the Device goes out of scope
DropDevice(env) == Idle /\ Commit(usb_drop(Ctx(env)), "drop", << >>)

Initialize(env) == Idle /\ Commit(initialize(Ctx(env)), "initialize", << >>)

\* Device::connect on the device: open()?; initialize()?
Connect(env) == Idle /\ Commit(initialize(usb_open(Ctx(env))), "connect", << >>)

EnsureSession(env) == Idle /\ Commit(ensure_session(Ctx(env)), "ensure_session", << >>)

ResetEngine(env) == Idle /\ Commit(reset_engine(Ctx(env)), "reset_engine", << >>)

CommandActive(env) == Idle /\ Commit(command_active(Ctx(env)), "command_active", << >>)

ReadConfig(env) == Idle /\ Commit(read_config(Ctx(env)), "read_config", << >>)

WriteConfig(env) == Idle /\ Commit(write_config(Ctx(env)), "write_config", << >>)

Activate(code, env) == Idle /\ Commit(activate(Ctx(env), code), "activate", code)

EnterIoMode(settings, env) ==
    Idle /\ Commit(enter_io_mode(Ctx(env), settings), "enter_io_mode", settings)

TransferIo(write_buffer, env) ==
    Idle /\ Commit(transfer_io(Ctx(env), write_buffer), "transfer_io", write_buffer)

ExitIoMode(env) == Idle /\ Commit(exit_io_mode(Ctx(env)), "exit_io_mode", << >>)

Program(file, env) == Idle /\ Commit(program(Ctx(env), file), "program", file)

\* Device::encrypt
Encrypt(buffer, env) == Idle /\ Commit(encrypt(Ctx(env), buffer), "encrypt", buffer)

\* Device::decrypt
Decrypt(buffer, env) == Idle /\ Commit(decrypt(Ctx(env), buffer), "decrypt", buffer)

\* Device::new (also inside Programmer::new): a closed handle, Config::new(),
\* EncryptionState::default()
Init ==
    /\ handle_open = FALSE
    /\ config = Config_new
    /\ table = ZeroTable
    /\ encode_index = 0
    /\ decode_index = 0
    /\ life = "Closed"
    /\ op = "none"
    /\ result = "none"
    /\ log = << >>
    /\ arg = << >>
    /\ out = [w |-> << >>, r |-> << >>]
    /\ sync_pc = "idle"
    /\ clock = 0
    /\ sync_buffer = 0
    /\ transfer = NoTransfer
    /\ hotplug = NoListener

-----------------------------------------------------------------------------
(* device.rs: sync_delay, statement by statement, with the time it takes *)

\* SYNC_TIMEOUT, in seconds; the clock counts whole seconds
SYNC_TIMEOUT == 1

\* the clock stops being watched this many seconds after sync_delay started
MaxClock == 2

\* how many rounds of the loop fit into one second
MaxRounds == 2

\* the bytes the device may answer on the Sync channel
SyncReplies == {0, 1, 255}

\* the errors of one bulk transfer
TransferErrors == {"Usb", "UnexpectedResponse"}

\* the Sync reads made so far by this call
Rounds == Len(SelectSeq(log, LAMBDA ev : ev.ep = "Sync"))

\* a loop test that never sees the deadline pass
deadline_never(elapsed) == TRUE

\* start.elapsed() <= SYNC_TIMEOUT
within_deadline(elapsed) == elapsed <= SYNC_TIMEOUT

\* sync_delay returns `res`
SyncDone(res) ==
    /\ sync_pc' = "done"
    /\ result' = res

\* let start = Instant::now(); let mut buffer = [0u8; 1];
SyncStart ==
    /\ Idle
    /\ sync_pc = "idle"
    /\ op' = "sync_delay"
    /\ sync_pc' = "loop"
    /\ clock' = 0
    /\ sync_buffer' = 0
    /\ UNCHANGED << session_vars, result, log, arg, out, step_vars >>

\* while start.elapsed() <= SYNC_TIMEOUT { .. } Err(Error::Timeout("sync_delay"));
\* a second holds at most MaxRounds rounds
SyncCheck ==
    /\ sync_pc = "loop"
    /\ IF within_deadline(clock)
       THEN /\ Rounds < MaxRounds * (clock + 1)
            /\ sync_pc' = "write"
            /\ UNCHANGED result
       ELSE SyncDone("Timeout")
    /\ UNCHANGED << session_vars, op, log, arg, out, clock, sync_buffer, step_vars >>

\* self.usb.write_bytes(Endpoint::Command, &buffer)?
SyncWrite(outcome) ==
    /\ sync_pc = "write"
    /\ IF ~handle_open
       THEN SyncDone("DeviceNotOpen") /\ UNCHANGED log
       ELSE /\ log' = Append(log, [ep |-> "Command", dir |-> "w",
                                   data |-> << sync_buffer >>,
                                   ok |-> outcome = "ok", life |-> life])
            /\ IF outcome = "ok"
               THEN sync_pc' = "read" /\ UNCHANGED result
               ELSE SyncDone(outcome)
    /\ UNCHANGED << session_vars, op, arg, out, clock, sync_buffer, step_vars >>

\* self.usb.read_bytes(Endpoint::Sync, &mut buffer)?
SyncRead(outcome, reply) ==
    /\ sync_pc = "read"
    /\ log' = Append(log, [ep |-> "Sync", dir |-> "r",
                           data |-> IF outcome = "ok" THEN << reply >> ELSE << >>,
                           ok |-> outcome = "ok", life |-> life])
    /\ IF outcome = "ok"
       THEN sync_pc' = "test" /\ sync_buffer' = reply /\ UNCHANGED result
       ELSE SyncDone(outcome) /\ UNCHANGED sync_buffer
    /\ UNCHANGED << session_vars, op, arg, out, clock, step_vars >>

\* if buffer[0] != 0 { return Ok(()); }
SyncTest ==
    /\ sync_pc = "test"
    /\ IF sync_buffer # 0 THEN SyncDone("ok") ELSE sync_pc' = "loop" /\ UNCHANGED result
    /\ UNCHANGED << session_vars, op, log, arg, out, clock, sync_buffer, step_vars >>

\* a second passes while sync_delay runs
Tick ==
    /\ sync_pc \in {"loop", "write", "read", "test"}
    /\ clock < MaxClock
    /\ clock' = clock + 1
    /\ UNCHANGED << session_vars, call_vars, sync_pc, sync_buffer, step_vars >>

\* one statement of sync_delay
SyncStep ==
    \/ SyncCheck
    \/ \E outcome \in {"ok"} \cup TransferErrors : SyncWrite(outcome)
    \/ \E outcome \in {"ok"} \cup TransferErrors, reply \in SyncReplies :
           SyncRead(outcome, reply)
    \/ SyncTest

-----------------------------------------------------------------------------
(* The inputs: what the device and the transport answer *)

\* two raw encryption tables a device may supply
RawA == [i \in 0..(TABLE_LEN - 1) |-> (4660 + (i * 4369)) % (WordMax + 1)]

RawB == [i \in 0..(TABLE_LEN - 1) |-> (51966 + (i * i * 257)) % (WordMax + 1)]

RawTables == {RawA, RawB}

\* a device register: firmware version, FIFO depth, capability mask, status word;
\* words 2, 3 and 40 carry bits no setter of enter_io_mode is given
DeviceReg(version, depth, caps, status) ==
    [ZeroWords EXCEPT ![2] = 43690, ![3] = 4660, ![32] = version, ![33] = depth,
                      ![37] = caps, ![40] = 48879, ![48] = status]

\* capability masks with and without bit 0 (VeriComm)
CapsWith == 275

CapsWithout == 274

\* status words with and without bit 0 (programmed)
StatusProgrammed == 1

StatusBlank == 256

GoodReg == DeviceReg(SMIMS_VERSION, 1, CapsWith, StatusProgrammed)

Env(fail, kind, zeros, timeout, raw, regs) ==
    [open |-> "ok", release |-> "ok", fail |-> fail, kind |-> kind, zeros |-> zeros,
     timeout |-> timeout, ready |-> 1, raw |-> raw, regs |-> regs, partial |-> 0,
     rx |-> << >>]

\* the device answers at once and nothing fails
Quiet(raw, regs) == Env(-1, "Usb", 0, -1, raw, regs)

\* how many zero replies a handshake may get before the device is ready
MaxZeros == 1

\* how many words of the table a failed read may have overwritten
PartialWords == 3

\* the bulk transfers of a call with `h` handshakes and `others` other transfers
Transfers(h, others, zeros) == (h * 2 * (zeros + 1)) + others

\* nothing fails; every raw table, every register sequence of regseqs
DataEnvs(regseqs) == { Quiet(raw, rs) : raw \in RawTables, rs \in regseqs }

\* nothing fails, and every handshake first reads zeros
SlowEnvs(regseqs) ==
    { Env(-1, "Usb", z, -1, RawA, rs) : z \in 1..MaxZeros, rs \in regseqs }

\* one of the call's bulk transfers fails with the transport's error
FailEnvs(h, others, rs) ==
    UNION { { Env(f, "Usb", z, -1, RawA, rs) : f \in 0..(Transfers(h, others, z) - 1) } :
            z \in 0..MaxZeros }

\* one of the call's bulk transfers moves zero bytes
ZeroLengthEnvs(h, others, rs) ==
    { Env(f, "UnexpectedResponse", 0, -1, RawA, rs) : f \in 0..(Transfers(h, others, 0) - 1) }

\* the read of the table (the fourth transfer of initialize) fails after
\* PartialWords words have arrived
PartialEnvs(rs) == { [Env(3, "Usb", 0, -1, RawB, rs) EXCEPT !.partial = PartialWords] }

\* one of the call's `h` handshakes runs into the deadline
TimeoutEnvs(h, rs) ==
    { Env(-1, "Usb", z, k, RawA, rs) : z \in 0..MaxZeros, k \in 0..(h - 1) }

\* the device cannot be opened
OpenEnvs ==
    { [Quiet(RawA, << GoodReg >>) EXCEPT !.open = o] : o \in {"DeviceNotFound", "Usb"} }

\* the outcomes of release_interface
CloseEnvs ==
    { [Quiet(RawA, << GoodReg >>) EXCEPT !.release = r] : r \in {"ok", "NoDevice", "Other"} }

\* every way a call with `h` handshakes and `others` other transfers can go
\* against a device holding the registers rs
AllEnvs(h, others, rs) ==
    DataEnvs({rs}) \cup SlowEnvs({rs}) \cup FailEnvs(h, others, rs)
        \cup ZeroLengthEnvs(h, others, rs) \cup TimeoutEnvs(h, rs) \cup OpenEnvs

\* IoSettings::default()
DefaultSettings ==
    [clock_high_delay |-> 11, clock_low_delay |-> 11, vericomm_isv |-> 0,
     clock_check_enabled |-> FALSE, mode_selector |-> 0,
     has_licence_key |-> TRUE, licence_key |-> 65344]

\* settings that differ from the default in every field, without a licence key
OtherSettings ==
    [clock_high_delay |-> 8, clock_low_delay |-> 9, vericomm_isv |-> 5,
     clock_check_enabled |-> TRUE, mode_selector |-> 2,
     has_licence_key |-> FALSE, licence_key |-> 0]

SettingsSet == {DefaultSettings, OtherSettings}

\* the registers enter_io_mode may find: each of the three preconditions met or not
EnterRegs ==
    { DeviceReg(v, 1, caps, st) : v \in {SMIMS_VERSION - 1, SMIMS_VERSION},
                                  caps \in {CapsWith, CapsWithout},
                                  st \in {StatusProgrammed, StatusBlank} }

\* bitstream files, line by line and byte by byte
FileTwoWords == [readable |-> TRUE, lines |-> << << "1", "a", "_", "2", "b", "_" >> >>]

FileThreeWords ==
    [readable |-> TRUE,
     lines |-> << << "1", "a", "2", "b" >>, << "C", "_", "d", " ", "z" >> >>]

FileSevenWords ==
    [readable |-> TRUE,
     lines |-> << << "1", "_", "2", "_", "3", "_", "4", "_" >>,
                  << "5", "_", "6", "_", "f", "f", "f", "f" >> >>]

\* ten lines of ten words each
FileHundredWords ==
    [readable |-> TRUE,
     lines |-> [l \in 1..10 |->
                  [b \in 1..30 |-> IF b % 3 = 0 THEN "_"
                                   ELSE HexDigits[((l + b) % 16) + 1]]]]

FileNotHex == [readable |-> TRUE, lines |-> << << "1", "g" >> >>]

FileEmpty == [readable |-> TRUE, lines |-> << >>]

FileMissing == [readable |-> FALSE, lines |-> << >>]

BadFiles == {FileNotHex, FileEmpty, FileMissing}

\* buffers handed to encrypt, decrypt and transfer_io
Seventeen == [k \in 1..17 |-> (k * 3855) % (WordMax + 1)]

Buffers == { << >>, << 4660 >>, << 65535, 1 >>, Seventeen }

-----------------------------------------------------------------------------
(* The cipher on its own: a session is connected, then buffers are          *)
(* encrypted and decrypted                                                  *)

NextCipher ==
    \/ \E raw \in RawTables : Connect(Quiet(raw, << GoodReg >>))
    \/ \E b \in Buffers : Encrypt(b, Quiet(RawA, << >>))
    \/ \E b \in Buffers : Decrypt(b, Quiet(RawA, << >>))
    \/ Return

SpecCipher == Init /\ [][NextCipher]_vars

-----------------------------------------------------------------------------
(* The session: every call of the API, against a device that holds one       *)
(* register, may answer late and may fail any transfer                       *)

Sixteen == [k \in 1..16 |-> (k * 4097) % (WordMax + 1)]

Eight == [k \in 1..8 |-> (k * 257) % (WordMax + 1)]

Next ==
    \/ \E e \in DataEnvs({<< >>}) \cup OpenEnvs : Open(e)
    \/ \E e \in CloseEnvs : Close(e)
    \/ \E e \in CloseEnvs : DropDevice(e)
    \/ \E e \in AllEnvs(3, 5, << GoodReg >>) \cup PartialEnvs(<< GoodReg >>) : Initialize(e)
    \/ \E e \in AllEnvs(3, 5, << GoodReg >>) : Connect(e)
    \/ \E e \in AllEnvs(3, 5, << GoodReg >>) : EnsureSession(e)
    \/ \E e \in AllEnvs(0, 1, << >>) : ResetEngine(e)
    \/ \E e \in AllEnvs(1, 1, << >>) : CommandActive(e)
    \/ \E e \in AllEnvs(2, 3, << GoodReg >>) : ReadConfig(e)
    \/ \E e \in AllEnvs(2, 3, << >>) : WriteConfig(e)
    \/ \E code \in ActivateCodes, e \in AllEnvs(1, 1, << >>) : Activate(code, e)
    \/ \E e \in AllEnvs(6, 9, << GoodReg >>) : EnterIoMode(DefaultSettings, e)
    \/ \E b \in {<< >>, Eight, Sixteen},
          e \in DataEnvs({<< >>}) \cup FailEnvs(0, 2, << >>) :
              TransferIo(b, [e EXCEPT !.rx = b])
    \/ \E e \in AllEnvs(1, 1, << >>) \cup CloseEnvs : ExitIoMode(e)
    \/ \E f \in {FileTwoWords, FileNotHex},
          e \in AllEnvs(7, 11, << GoodReg, GoodReg >>) : Program(f, e)
    \/ Return

Spec == Init /\ [][Next]_vars

-----------------------------------------------------------------------------
(* enter_io_mode against every register and with every settings              *)

NextEnter ==
    \/ \E st \in SettingsSet,
          e \in DataEnvs({ << r >> : r \in EnterRegs })
                \cup SlowEnvs({ << r >> : r \in EnterRegs })
                \cup FailEnvs(6, 9, << GoodReg >>)
                \cup PartialEnvs(<< GoodReg >>)
                \cup TimeoutEnvs(6, << GoodReg >>)
                \cup OpenEnvs : EnterIoMode(st, e)
    \/ \E e \in CloseEnvs : Close(e)
    \/ Return

SpecEnter == Init /\ [][NextEnter]_vars

-----------------------------------------------------------------------------
(* Programmer::program against every FIFO depth and final status              *)

\* the registers of the read before the upload and of the read after it
ProgramRegs ==
    { << DeviceReg(SMIMS_VERSION, depth, CapsWith, StatusBlank),
         DeviceReg(SMIMS_VERSION, depth, CapsWith, StatusProgrammed) >> :
        depth \in {0, 1, 2, 32} }
    \cup
    { << DeviceReg(SMIMS_VERSION, 1, CapsWith, before),
         DeviceReg(SMIMS_VERSION, 1, CapsWith, after) >> :
        before \in {StatusProgrammed, StatusBlank},
        after \in {StatusProgrammed, StatusBlank} }

GoodFiles == {FileTwoWords, FileThreeWords, FileSevenWords, FileHundredWords}

\* the upload of a hundred words one word at a time is left out
ProgramCases ==
    { << f, e >> \in GoodFiles \X DataEnvs(ProgramRegs) :
         f = FileHundredWords => fifo_size(e.regs[1]) = 32 }

NextProgram ==
    \/ \E fe \in ProgramCases : Program(fe[1], fe[2])
    \/ \E f \in BadFiles : Program(f, Quiet(RawA, << GoodReg, GoodReg >>))
    \/ \E e \in SlowEnvs(ProgramRegs)
                \cup FailEnvs(7, 13, << GoodReg, GoodReg >>)
                \cup PartialEnvs(<< GoodReg, GoodReg >>)
                \cup TimeoutEnvs(7, << GoodReg, GoodReg >>)
                \cup OpenEnvs : Program(FileThreeWords, e)
    \/ \E e \in CloseEnvs : Close(e)
    \/ Return

SpecProgram == Init /\ [][NextProgram]_vars

-----------------------------------------------------------------------------
(* sync_delay on a closed and on an open session.  The thread keeps running,   *)
(* every transfer returns, and time passes.                                    *)

NextSync ==
    \/ \E e \in DataEnvs({<< >>}) : Open(e)
    \/ \E e \in CloseEnvs : Close(e)
    \/ \E code \in {<< 1, 3 >>}, e \in DataEnvs({<< >>}) : Activate(code, e)
    \/ SyncStart
    \/ SyncStep
    \/ Tick
    \/ Return

SpecSync == Init /\ [][NextSync]_vars /\ WF_vars(SyncStep) /\ WF_vars(Tick)

-----------------------------------------------------------------------------
(* The register on its own: a caller holding config_mut() calls one setter   *)
(* on a register of a new session or on one read from a device               *)

\* a register whose 64 words all hold `pattern`
Uniform(pattern) == [i \in 0..(WORD_COUNT - 1) |-> pattern]

Registers == { Uniform(p) : p \in {0, 4660, 43690, 65535} } \cup {GoodReg}

\* arguments of the setters that take a u16, a u8 and the ISV value (a u8 of
\* which the setter keeps the low nibble)
U16Values == {0, 1, 43981, 65535}

U8Values == {0, 1, 165, 255}

IsvValues == (0..15) \cup {21, 255}

\* device.config_mut().set_<name>(value) on an idle session
Store(words, name, value) ==
    /\ Idle
    /\ config \in Registers
    /\ config' = words
    /\ op' = "set"
    /\ result' = "ok"
    /\ arg' = << name, value >>
    /\ UNCHANGED << handle_open, table, encode_index, decode_index, life, log, out >>
    /\ UNCHANGED << sync_vars, step_vars >>

SetVericommClockHighDelay(delay) ==
    Store(set_vericomm_clock_high_delay(config, delay), "vericomm_clock_high_delay", delay)

SetVericommClockLowDelay(delay) ==
    Store(set_vericomm_clock_low_delay(config, delay), "vericomm_clock_low_delay", delay)

SetVericommIsv(value) ==
    Store(set_vericomm_isv(config, value), "vericomm_isv", value)

SetVericommClockCheckEnabled(enabled) ==
    Store(set_vericomm_clock_check_enabled(config, enabled),
          "vericomm_clock_check_enabled", enabled)

SetVeriSdkChannelSelector(channel) ==
    Store(set_veri_sdk_channel_selector(config, channel), "veri_sdk_channel_selector", channel)

SetModeSelector(mode) ==
    Store(set_mode_selector(config, mode), "mode_selector", mode)

SetFlashBeginBlockAddr(addr) ==
    Store(set_flash_begin_block_addr(config, addr), "flash_begin_block_addr", addr)

SetFlashBeginClusterAddr(addr) ==
    Store(set_flash_begin_cluster_addr(config, addr), "flash_begin_cluster_addr", addr)

SetFlashReadEndBlockAddr(addr) ==
    Store(set_flash_read_end_block_addr(config, addr), "flash_read_end_block_addr", addr)

SetFlashReadEndClusterAddr(addr) ==
    Store(set_flash_read_end_cluster_addr(config, addr), "flash_read_end_cluster_addr", addr)

SetLicenceKey(key) ==
    Store(set_licence_key(config, key), "licence_key", key)

InitConfig ==
    /\ config \in Registers
    /\ handle_open = FALSE
    /\ table = ZeroTable
    /\ encode_index = 0
    /\ decode_index = 0
    /\ life = "Closed"
    /\ op = "none"
    /\ result = "none"
    /\ log = << >>
    /\ arg = << >>
    /\ out = [w |-> << >>, r |-> << >>]
    /\ sync_pc = "idle"
    /\ clock = 0
    /\ sync_buffer = 0
    /\ transfer = NoTransfer
    /\ hotplug = NoListener

NextConfig ==
    \/ \E d \in U16Values : SetVericommClockHighDelay(d)
    \/ \E d \in U16Values : SetVericommClockLowDelay(d)
    \/ \E v \in IsvValues : SetVericommIsv(v)
    \/ \E b \in BOOLEAN : SetVericommClockCheckEnabled(b)
    \/ \E ch \in U8Values : SetVeriSdkChannelSelector(ch)
    \/ \E m \in U8Values : SetModeSelector(m)
    \/ \E a \in U16Values : SetFlashBeginBlockAddr(a)
    \/ \E a \in U16Values : SetFlashBeginClusterAddr(a)
    \/ \E a \in U16Values : SetFlashReadEndBlockAddr(a)
    \/ \E a \in U16Values : SetFlashReadEndClusterAddr(a)
    \/ \E k \in U16Values : SetLicenceKey(k)
    \/ Return

SpecConfig == InitConfig /\ [][NextConfig]_vars

-----------------------------------------------------------------------------
(* The bitstream decoder on its own: load_bitfile is applied to a file       *)

MaxLineLen == 3

\* the bytes the decoder tells apart: digits of both cases, the separator,
\* a blank, and a byte that is none of these
Alphabet == {"1", "a", "F", "_", " ", "g"}

LinesUpTo(n) == UNION { [1..k -> Alphabet] : k \in 0..n }

OneLineFiles ==
    { [readable |-> TRUE, lines |-> << l >>] : l \in LinesUpTo(MaxLineLen) }

TwoLineFiles ==
    { [readable |-> TRUE, lines |-> << l1, l2 >>] :
         l1 \in LinesUpTo(MaxLineLen - 2), l2 \in LinesUpTo(MaxLineLen - 2) }

FileBlankThenByte == [readable |-> TRUE, lines |-> << << "1", "a", " ", "z" >> >>]

FileTab == [readable |-> TRUE, lines |-> << << "1", "a", "\t", "_", "2" >> >>]

FileFiveDigits ==
    [readable |-> TRUE, lines |-> << << "1", "2", "3", "4", "5", "_", "9" >> >>]

BitFiles ==
    OneLineFiles \cup TwoLineFiles \cup GoodFiles \cup BadFiles
        \cup {FileBlankThenByte, FileTab, FileFiveDigits}

\* load_bitfile(path) on its own
LoadBitfile(file) ==
    /\ Idle
    /\ Bind(load_bitfile(file), LAMBDA f :
           /\ result' = f.err
           /\ out' = [w |-> f.data, r |-> << >>])
    /\ op' = "load_bitfile"
    /\ arg' = file
    /\ UNCHANGED << session_vars, log >>
    /\ UNCHANGED << sync_vars, step_vars >>

NextBitfile ==
    \/ \E file \in BitFiles : LoadBitfile(file)
    \/ Return

SpecBitfile == Init /\ [][NextBitfile]_vars

-----------------------------------------------------------------------------
(* The licence derivation on its own: Device::licence_gen is called with a   *)
(* security key and a customer id                                            *)

\* every combination of the four 2-bit shift amounts, alone and with the
\* other bits of the key set
SecurityKeys ==
    { s0 + (16 * s1) + (256 * s2) + (4096 * s3) + rest :
         s0 \in 0..3, s1 \in 0..3, s2 \in 0..3, s3 \in 0..3, rest \in {0, 52428} }

CustomerIds == {0, 1, 4660, 33825, 42435, 32768, 65535}

\* Device::licence_gen(security_key, customer_id); the licence is left in out.w
LicenceGen(key, customer_id) ==
    /\ Idle
    /\ op' = "licence_gen"
    /\ result' = "ok"
    /\ arg' = << key, customer_id >>
    /\ out' = [w |-> << licence_gen(key, customer_id) >>, r |-> << >>]
    /\ UNCHANGED << session_vars, log >>
    /\ UNCHANGED << sync_vars, step_vars >>

NextLicence ==
    \/ \E k \in SecurityKeys, id \in CustomerIds : LicenceGen(k, id)
    \/ Return

SpecLicence == Init /\ [][NextLicence]_vars

-----------------------------------------------------------------------------
(* usb.rs: the hotplug listener.  The thread that owns the HotplugRegistration *)
(* and the polling thread run statement by statement; devices come and go.    *)

\* device events the model lets happen while one listener lives
MaxEvents == 2

\* loads of the flag that may still see `true` after the store of `false`
MaxStale == 1

EventKinds == {"Arrived", "Left"}

\* UsbDevice::register_hotplug_callback: the callback is registered with the
\* context, then HotplugRegistration::new sets running and spawns the thread;
\* on an error no listener is left behind
RegisterHotplugCallback(outcome) ==
    /\ hotplug.dropper \in {"none", "dropped"}
    /\ hotplug' = IF outcome = "ok"
                  THEN [NoListener EXCEPT !.registered = TRUE, !.running = TRUE,
                                          !.poller = "test", !.dropper = "held"]
                  ELSE NoListener
    /\ UNCHANGED << session_vars, call_vars, sync_vars, transfer >>

\* a device is plugged in or removed: the context has an event to hand out
Plug(kind) ==
    /\ hotplug.dropper \notin {"none", "dropped"}
    /\ hotplug.plugged < MaxEvents
    /\ hotplug' = [hotplug EXCEPT !.pending = Append(@, kind), !.plugged = @ + 1]
    /\ UNCHANGED << session_vars, call_vars, sync_vars, transfer >>

\* while thread_running.load(Ordering::Relaxed): a relaxed load after the store
\* may still return true
PollTest(seen) ==
    /\ hotplug.poller = "test"
    /\ \/ seen = hotplug.running
       \/ seen /\ ~hotplug.running /\ hotplug.stale < MaxStale
    /\ hotplug' = [hotplug EXCEPT
                      !.poller = IF seen THEN "handling" ELSE "exited",
                      !.stale = IF seen # hotplug.running THEN @ + 1 ELSE @]
    /\ UNCHANGED << session_vars, call_vars, sync_vars, transfer >>

\* inside context.handle_events: the next event is taken; it goes to the
\* callback if the callback is registered, and is dropped otherwise
PollSelect ==
    /\ hotplug.poller = "handling"
    /\ hotplug.pending # << >>
    /\ hotplug' = IF hotplug.registered
                  THEN [hotplug EXCEPT !.pending = Tail(@),
                                       !.selected = Head(hotplug.pending),
                                       !.poller = "dispatch"]
                  ELSE [hotplug EXCEPT !.pending = Tail(@)]
    /\ UNCHANGED << session_vars, call_vars, sync_vars, transfer >>

\* CallbackHotplug::device_arrived / device_left: (self.callback)(event)
PollInvoke ==
    /\ hotplug.poller = "dispatch"
    /\ hotplug' = [hotplug EXCEPT
                      !.delivered = Append(@, [kind |-> hotplug.selected,
                                               during |-> hotplug.dropper]),
                      !.selected = "none",
                      !.poller = "handling"]
    /\ UNCHANGED << session_vars, call_vars, sync_vars, transfer >>

\* handle_events returns: Ok, Interrupted and Timeout go round the loop,
\* any other error breaks out of it
PollReturn(outcome) ==
    /\ hotplug.poller = "handling"
    /\ hotplug' = [hotplug EXCEPT
                      !.poller = IF outcome = "Other" THEN "exited" ELSE "test"]
    /\ UNCHANGED << session_vars, call_vars, sync_vars, transfer >>

\* drop: let _ = self.registration.take();
DropTake ==
    /\ hotplug.dropper = "held"
    /\ hotplug' = [hotplug EXCEPT !.registered = FALSE, !.dropper = "taken"]
    /\ UNCHANGED << session_vars, call_vars, sync_vars, transfer >>

\* drop: self.running.store(false, Ordering::SeqCst);
DropStore ==
    /\ hotplug.dropper = "taken"
    /\ hotplug' = [hotplug EXCEPT !.running = FALSE, !.dropper = "stored"]
    /\ UNCHANGED << session_vars, call_vars, sync_vars, transfer >>

\* drop: handle.join() returns once the thread has ended; then drop returns
DropJoin ==
    /\ hotplug.dropper = "stored"
    /\ hotplug.poller = "exited"
    /\ hotplug' = [hotplug EXCEPT !.dropper = "dropped"]
    /\ UNCHANGED << session_vars, call_vars, sync_vars, transfer >>

\* one statement of the polling thread
PollStep ==
    \/ \E seen \in BOOLEAN : PollTest(seen)
    \/ PollSelect
    \/ PollInvoke
    \/ \E outcome \in {"Ok", "Interrupted", "Timeout", "Other"} : PollReturn(outcome)

\* one statement of HotplugRegistration::drop
DropStep == DropTake \/ DropStore \/ DropJoin

NextHotplug ==
    \/ \E outcome \in {"ok", "FeatureUnavailable", "Usb", "Io"} :
           RegisterHotplugCallback(outcome)
    \/ \E kind \in EventKinds : Plug(kind)
    \/ PollStep
    \/ DropStep

SpecHotplug == Init /\ [][NextHotplug]_vars /\ WF_vars(PollStep) /\ WF_vars(DropStep)

-----------------------------------------------------------------------------
(* usb.rs: read_bytes / write_bytes with the loop of bulk_read / bulk_write, *)
(* statement by statement.  transfer.calls counts the calls of read_bulk /    *)
(* write_bulk, transfer.moved is what the last one returned (-1: an error).   *)

\* the longest buffer handed to read_bytes / write_bytes
MaxBuffer == 4

\* the test of n that is never true
transferred_nothing_ignored(n) == FALSE

\* if n == 0 { return Err(Error::UnexpectedResponse(..)) }
transferred_nothing(n) == n = 0

\* bulk_read / bulk_write returns `res`
BulkDone(res) ==
    /\ result' = res
    /\ UNCHANGED << session_vars, op, log, arg, out, sync_vars, hotplug >>

\* UsbDevice::read_bytes / write_bytes: handle.as_ref().ok_or(DeviceNotOpen)?,
\* then bulk_read / bulk_write with offset = 0
BulkCall(dir, len) ==
    /\ Idle
    /\ transfer.pc = "idle"
    /\ op' = IF dir = "r" THEN "read_bytes" ELSE "write_bytes"
    /\ arg' = << len >>
    /\ IF ~handle_open
       THEN /\ result' = "DeviceNotOpen"
            /\ transfer' = [NoTransfer EXCEPT !.pc = "done", !.dir = dir, !.len = len]
       ELSE /\ UNCHANGED result
            /\ transfer' = [NoTransfer EXCEPT !.pc = "loop", !.dir = dir, !.len = len]
    /\ UNCHANGED << session_vars, log, out, sync_vars, hotplug >>

\* while offset < buffer.len() { .. } Ok(())
BulkTest ==
    /\ transfer.pc = "loop"
    /\ IF transfer.offset < transfer.len
       THEN /\ transfer' = [transfer EXCEPT !.pc = "call"]
            /\ UNCHANGED << session_vars, call_vars, sync_vars, hotplug >>
       ELSE /\ transfer' = [transfer EXCEPT !.pc = "done"]
            /\ BulkDone("ok")

\* handle.read_bulk / write_bulk(endpoint, &buffer[offset..], DEFAULT_TIMEOUT)
\* returns Ok(n), n at most the length of the slice; then the test of n and
\* offset += n
BulkMoved(n) ==
    /\ transfer.pc = "call"
    /\ n \in 0..(transfer.len - transfer.offset)
    /\ IF transferred_nothing(n)
       THEN /\ transfer' = [transfer EXCEPT !.pc = "done", !.calls = @ + 1, !.moved = n]
            /\ BulkDone("UnexpectedResponse")
       ELSE /\ transfer' = [transfer EXCEPT !.pc = "loop", !.calls = @ + 1, !.moved = n,
                                            !.offset = @ + n]
            /\ UNCHANGED << session_vars, call_vars, sync_vars, hotplug >>

\* handle.read_bulk / write_bulk returns an error: .map_err(usb_error)?
BulkFailed ==
    /\ transfer.pc = "call"
    /\ transfer' = [transfer EXCEPT !.pc = "done", !.calls = @ + 1, !.moved = -1]
    /\ BulkDone("Usb")

\* one statement of bulk_read / bulk_write
BulkStep ==
    \/ BulkTest
    \/ \E n \in 0..MaxBuffer : BulkMoved(n)
    \/ BulkFailed

NextBulk ==
    \/ \E e \in DataEnvs({<< >>}) \cup OpenEnvs : Open(e)
    \/ \E e \in CloseEnvs : Close(e)
    \/ \E dir \in {"r", "w"}, len \in 0..MaxBuffer : BulkCall(dir, len)
    \/ BulkStep
    \/ Return

SpecBulk == Init /\ [][NextBulk]_vars /\ WF_vars(BulkStep)

-----------------------------------------------------------------------------
(* C5 *)

\* a step in which Device::encrypt (Device::decrypt) runs on its own
EncryptCall == op = "none" /\ op' = "encrypt"

DecryptCall == op = "none" /\ op' = "decrypt"

\* C5 as stated: encrypt XORs word k with table[16 + ((c + k) mod 16)], decrypt
\* XORs word k with table[(d + k) mod 16], c and d the cursors when the call starts
C5_HalvesAsStated ==
    [][ /\ EncryptCall =>
             \A k \in 1..Len(arg') :
                 out'.w[k] = Xor16(arg'[k], table[16 + ((encode_index + k - 1) % 16)])
        /\ DecryptCall =>
             \A k \in 1..Len(arg') :
                 out'.r[k] = Xor16(arg'[k], table[(decode_index + k - 1) % 16])
      ]_vars

\* C5, amended: encrypt XORs word k with table[(c + k) mod 16], the first half of
\* the decoded table, and decrypt XORs word k with table[16 + ((d + k) mod 16)],
\* the second half
C5_Halves ==
    [][ /\ EncryptCall =>
             /\ Len(out'.w) = Len(arg')
             /\ \A k \in 1..Len(arg') :
                    out'.w[k] = Xor16(arg'[k], table[(encode_index + k - 1) % 16])
        /\ DecryptCall =>
             /\ Len(out'.r) = Len(arg')
             /\ \A k \in 1..Len(arg') :
                    out'.r[k] = Xor16(arg'[k], table[16 + ((decode_index + k - 1) % 16)])
      ]_vars

\* 17 words have been encrypted from a nonzero cursor with a decoded table whose
\* halves differ at every index
C5_Witness ==
    /\ op = "encrypt"
    /\ Len(arg) = 17
    /\ encode_index = 3
    /\ \A i \in 0..15 : table[i] # table[16 + i]
    /\ out.w # arg

-----------------------------------------------------------------------------
(* C6 *)

CursorsInRange == encode_index \in 0..15 /\ decode_index \in 0..15

\* C6: both cursors stay in 0..15; encrypting n words moves the encode cursor from
\* c to (c + n) mod 16 and leaves the decode cursor and the table alone (so a
\* zero-length input changes nothing), and the words and the final cursor are those
\* of encrypting any prefix and then the rest in a second call; the same for decrypt
C6_CursorsPersist ==
    /\ []CursorsInRange
    /\ [][ /\ EncryptCall =>
                /\ encode_index' = (encode_index + Len(arg')) % 16
                /\ decode_index' = decode_index
                /\ table' = table
                /\ Len(arg') = 0 => out'.w = << >> /\ encode_index' = encode_index
                /\ \A k \in 0..Len(arg') :
                      LET first == encrypt_words(table, encode_index, SubSeq(arg', 1, k))
                          rest  == encrypt_words(table, first.index,
                                                 SubSeq(arg', k + 1, Len(arg')))
                      IN  /\ out'.w = first.buffer \o rest.buffer
                          /\ encode_index' = rest.index
           /\ DecryptCall =>
                /\ decode_index' = (decode_index + Len(arg')) % 16
                /\ encode_index' = encode_index
                /\ table' = table
                /\ Len(arg') = 0 => out'.r = << >> /\ decode_index' = decode_index
                /\ \A k \in 0..Len(arg') :
                      LET first == decrypt_words(table, decode_index, SubSeq(arg', 1, k))
                          rest  == decrypt_words(table, first.index,
                                                 SubSeq(arg', k + 1, Len(arg')))
                      IN  /\ out'.r = first.buffer \o rest.buffer
                          /\ decode_index' = rest.index
         ]_vars

\* 17 words have been encrypted from cursor 0, ending at cursor 1, while the decode
\* cursor stands where earlier decrypt calls left it
C6_Witness ==
    /\ op = "encrypt"
    /\ Len(arg) = 17
    /\ encode_index = 1
    /\ decode_index = 2
    /\ table # ZeroTable

-----------------------------------------------------------------------------
(* What a call's log shows *)

IsDecrypt(ev) == ev.ep = "Host" /\ ev.dir = "decrypt"

\* the registers the call has read and decrypted, in order
RegistersRead == SelectSeq(log, IsDecrypt)

IsFifoWrite(ev) == ev.ep = "FifoWrite"

\* the transfer calls of the call on the FIFO-write channel, in order
FifoWrites == SelectSeq(log, IsFifoWrite)

\* the command code `code` was written (or its write attempted) in this call
Sent(code) == \E i \in 1..Len(log) : log[i].ep = "Command" /\ log[i].data = code

PreconditionErrors == {"VersionMismatch", "NotProgrammed", "FeatureUnavailable"}

-----------------------------------------------------------------------------
(* C1 *)

\* enter_io_mode has returned after reading the register
EnterChecked == op = "enter_io_mode" /\ Len(RegistersRead) = 1

FreshRegister == SeqToWords(RegistersRead[1].data)

\* C1: enter_io_mode checks the freshly read register in the order version,
\* programmed bit, VeriComm bit and reports the first check that fails: a version
\* below the minimum gives version-mismatch whatever the other bits are; a
\* sufficient version with the programmed bit clear gives not-programmed whatever
\* the capability bit is; feature-unavailable is returned only when the first two
\* checks pass and the capability bit is clear
C1_CheckOrder ==
    /\ op = "enter_io_mode" /\ result \in PreconditionErrors => Len(RegistersRead) = 1
    /\ EnterChecked =>
         /\ FreshRegister[32] < SMIMS_VERSION => result = "VersionMismatch"
         /\ FreshRegister[32] >= SMIMS_VERSION /\ FreshRegister[48] % 2 = 0
                => result = "NotProgrammed"
         /\ result = "FeatureUnavailable"
                <=> /\ FreshRegister[32] >= SMIMS_VERSION
                    /\ FreshRegister[48] % 2 = 1
                    /\ FreshRegister[37] % 2 = 0
         /\ result = "VersionMismatch" => FreshRegister[32] < SMIMS_VERSION
         /\ result = "NotProgrammed" => FreshRegister[48] % 2 = 0

\* the register fails all three checks at once and version-mismatch is reported
C1_Witness ==
    /\ EnterChecked
    /\ FreshRegister[32] < SMIMS_VERSION
    /\ FreshRegister[48] % 2 = 0
    /\ FreshRegister[37] % 2 = 0
    /\ result = "VersionMismatch"

-----------------------------------------------------------------------------
(* C2 *)

\* C2: when one of the three precondition checks of enter_io_mode fails, the call
\* sends nothing further: no write-config command (01,11), no words on the
\* FIFO-write channel, no activate-VeriComm command (01,03); the last thing on the
\* wire is the command_active that ends the read of the register, and the register
\* held by the session is the one read, without the settings
C2_NothingSentAfterFailedCheck ==
    op = "enter_io_mode" /\ result \in PreconditionErrors =>
        /\ ~Sent(<< 1, 17 >>)
        /\ ~Sent(<< 1, 3 >>)
        /\ FifoWrites = << >>
        /\ Len(log) >= 2
        /\ log[Len(log)] = [RegistersRead[1] EXCEPT !.life = log[Len(log)].life]
        /\ log[Len(log) - 1].ep = "Command" /\ log[Len(log) - 1].data = << 1, 0 >>
        /\ config = FreshRegister

\* enter_io_mode was called with the non-default settings on a programmed device
\* of a sufficient version without the VeriComm capability, and failed the check
C2_Witness ==
    /\ op = "enter_io_mode"
    /\ arg = OtherSettings
    /\ result = "FeatureUnavailable"
    /\ Sent(<< 1, 1 >>)

-----------------------------------------------------------------------------
(* C3 *)

\* Programmer::program has re-read the register after the upload
ProgramReread == op = "program" /\ Len(RegistersRead) = 2

\* C3: program returns success only if the programmed bit (word 48 bit 0) is set
\* in the register read back after the upload and command_active; if that bit is
\* clear in the re-read register the call fails with not-programmed, whatever the
\* bit was in the register held before the upload
C3_VerifiedAfterUpload ==
    /\ op = "program" /\ result \in {"ok", "NotProgrammed"} => Len(RegistersRead) = 2
    /\ ProgramReread =>
         /\ RegistersRead[2].data[49] % 2 = 1 => result = "ok"
         /\ RegistersRead[2].data[49] % 2 = 0 => result = "NotProgrammed"
         /\ config = SeqToWords(RegistersRead[2].data)
         /\ log[Len(log)] = RegistersRead[2]
         /\ log[Len(log) - 1].ep = "Command" /\ log[Len(log) - 1].data = << 1, 0 >>

\* the device was programmed before the upload and reads back blank after it
C3_Witness ==
    /\ ProgramReread
    /\ RegistersRead[1].data[49] % 2 = 1
    /\ RegistersRead[2].data[49] % 2 = 0
    /\ result = "NotProgrammed"
    /\ FifoWrites # << >>

-----------------------------------------------------------------------------
(* C4 *)

\* the encrypted bitstream of a program call that reached the upload
IsEncrypt(ev) == ev.ep = "Host" /\ ev.dir = "encrypt"

Bitstream == SelectSeq(log, IsEncrypt)[1].data

\* the FIFO depth the device advertised in the register read by initialize
Depth == RegistersRead[1].data[34]

\* the sizes of the transfer calls on the FIFO-write channel, in order
ChunkSizes == [i \in 1..Len(FifoWrites) |-> Len(FifoWrites[i].data)]

RECURSIVE Concat(_)
Concat(chunks) ==
    IF chunks = << >> THEN << >> ELSE Head(chunks).data \o Concat(Tail(chunks))

\* n words go out in chunks of len: ceil(n / len) transfer calls, each of len
\* words except a last one holding the remainder, together the bitstream in order
ChunkedBy(len) ==
    /\ Len(FifoWrites) = (Len(Bitstream) + len - 1) \div len
    /\ \A i \in 1..Len(FifoWrites) :
           /\ FifoWrites[i].ok
           /\ ChunkSizes[i] = IF i < Len(FifoWrites) THEN len
                              ELSE Len(Bitstream) - (len * (Len(FifoWrites) - 1))
    /\ Concat(FifoWrites) = Bitstream

\* C4 as stated: a bitstream of N words uploaded to a device advertising a FIFO
\* depth of D >= 1 is written as ceil(N / D) transfer calls of D words, the last
\* holding the remainder (N = 100, D = 32: 32, 32, 32, 4)
C4_ChunksOfDepth ==
    ProgramReread /\ Depth >= 1 => ChunkedBy(Depth)

\* C4, amended: the chunk holds 2 * D words, and one word when D = 0: a bitstream
\* of N words goes out as ceil(N / max(2 * D, 1)) transfer calls, each of
\* max(2 * D, 1) words except a last one holding the remainder
\* (N = 100, D = 32: 64, 36)
C4_ChunksOfTwiceDepth ==
    ProgramReread => ChunkedBy(IF Depth >= 1 THEN 2 * Depth ELSE 1)

\* a hundred words have been uploaded to a device advertising a depth of 32
C4_Witness ==
    /\ ProgramReread
    /\ Len(Bitstream) = 100
    /\ Depth = 32
    /\ ChunkSizes = << 64, 36 >>

-----------------------------------------------------------------------------
(* C7 *)

IsFetch(ev) == ev.ep = "Command" /\ ev.data = << 1, 15 >>

IsDecode(ev) == ev.ep = "Host" /\ ev.dir = "decode_table"

\* the positions in the call's log of the commands read-encryption-table
Fetches == { i \in 1..Len(log) : IsFetch(log[i]) }

\* the positions in the call's log of the decodings of the table
Decodes == { i \in 1..Len(log) : IsDecode(log[i]) }

RECURSIVE Words(_)
\* how many words the events of a log carry in all
Words(events) ==
    IF events = << >> THEN 0 ELSE Len(Head(events).data) + Words(Tail(events))

\* the calls that run Device::initialize
Initializing == {"initialize", "connect", "ensure_session", "enter_io_mode", "program"}

-----------------------------------------------------------------------------
(* C8 *)

SyncReturned == op = "sync_delay" /\ sync_pc = "done"

\* the last two transfers are a probe written and a nonzero byte read
EndsWithReply ==
    /\ Len(log) >= 2
    /\ log[Len(log) - 1] =
           [ep |-> "Command", dir |-> "w", data |-> << 0 >>, ok |-> TRUE, life |-> life]
    /\ log[Len(log)].ep = "Sync" /\ log[Len(log)].ok /\ log[Len(log)].data # << 0 >>

\* what holds of sync_delay in every state
SyncInvariant ==
    /\ op = "sync_delay" =>
         /\ \A i \in 1..Len(log) :
                /\ log[i].ep = (IF i % 2 = 1 THEN "Command" ELSE "Sync")
                /\ log[i].ep = "Command" => log[i].data = << 0 >>
                /\ ~log[i].ok => i = Len(log) /\ SyncReturned /\ result \in TransferErrors
                /\ i < Len(log) /\ log[i].ep = "Sync" => log[i].data = << 0 >>
         /\ sync_pc # "done" => result = "none"
    /\ SyncReturned =>
         /\ result \in {"ok", "Timeout", "DeviceNotOpen"} \cup TransferErrors
         /\ result = "ok" => EndsWithReply
         /\ result = "Timeout" =>
                /\ clock > SYNC_TIMEOUT
                /\ \A i \in 1..Len(log) : log[i].ok /\ log[i].data = << 0 >>
         /\ result = "DeviceNotOpen" => ~handle_open /\ log = << >>
         /\ result \in TransferErrors => log # << >> /\ ~log[Len(log)].ok

\* what holds of every statement of sync_delay: a zero reply is followed by the
\* test of the deadline, and the test of the deadline by a probe if the deadline
\* has not passed and by the timeout error if it has
SyncStatement ==
    /\ sync_pc = "test" /\ sync_pc' # "test" =>
           IF sync_buffer = 0 THEN sync_pc' = "loop" /\ result' = "none"
           ELSE sync_pc' = "done" /\ result' = "ok"
    /\ sync_pc = "loop" /\ sync_pc' # "loop" =>
           IF clock <= SYNC_TIMEOUT THEN sync_pc' = "write" /\ result' = "none"
           ELSE sync_pc' = "done" /\ result' = "Timeout"

\* C8: sync_delay returns success only directly after reading a nonzero byte on
\* the Sync channel in reply to a one-byte probe on the Command channel; while the
\* replies are zero it keeps probing, and once the 1-second deadline has passed it
\* returns the timeout error; a transport error on the probe write or the sync
\* read is returned at once; it never reports success without a nonzero reply and
\* it never retries forever
C8_SyncHandshake ==
    /\ []SyncInvariant
    /\ [][SyncStatement]_vars
    /\ (sync_pc \in {"loop", "write", "read", "test"}) ~> (sync_pc = "done")

\* sync_delay has probed twice in the first second and twice in the next, read
\* zero every time, and returned the timeout error after the deadline
C8_Witness ==
    /\ SyncReturned
    /\ result = "Timeout"
    /\ clock = 2
    /\ Len(log) = 8
    /\ handle_open

-----------------------------------------------------------------------------
(* C9 *)

IsWire(ev) == ev.ep \in {"Command", "Sync", "FifoWrite", "FifoRead"}

\* the transfers of the call, in order
Wire == SelectSeq(log, IsWire)

\* a command code, as opposed to the probe byte of the handshake
IsCode(ev) == ev.ep = "Command" /\ ev.data # << 0 >>

\* the transfer at position i directly follows a handshake that succeeded: the
\* probe written, a nonzero byte read
AfterHandshake(i) ==
    /\ i >= 3
    /\ Wire[i - 2].ep = "Command" /\ Wire[i - 2].data = << 0 >> /\ Wire[i - 2].ok
    /\ Wire[i - 1].ep = "Sync" /\ Wire[i - 1].ok /\ Wire[i - 1].data # << 0 >>

\* C9 as stated: every command code written on the Command channel, reset-engine
\* (02) included, directly follows a handshake that succeeded
C9_EveryCommandAfterSync ==
    \A i \in 1..Len(Wire) : IsCode(Wire[i]) => AfterHandshake(i)

\* C9, amended: every two-byte command code (01,xx) directly follows a handshake
\* that succeeded, and nothing is transferred after a transfer that failed;
\* reset-engine (02) is written without a handshake, as the only transfer of its
\* call
C9_CommandAfterSync ==
    /\ \A i \in 1..Len(Wire) :
           /\ IsCode(Wire[i]) /\ Wire[i].data # << 2 >> => AfterHandshake(i)
           /\ IsCode(Wire[i]) /\ Wire[i].data = << 2 >> => op = "reset_engine"
           /\ ~Wire[i].ok => i = Len(Wire)
    /\ op = "reset_engine" /\ handle_open
           => Len(Wire) = 1 /\ Wire[1].ep = "Command" /\ Wire[1].data = << 2 >>

\* reset_engine has written 02 on an open session without a handshake
C9_Witness ==
    /\ op = "reset_engine"
    /\ result = "ok"
    /\ Wire = << [ep |-> "Command", dir |-> "w", data |-> << 2 >>, ok |-> TRUE,
                  life |-> life] >>

-----------------------------------------------------------------------------
(* C10 *)

IsActivation(ev) == ev.ep = "Command" /\ ev.data \in ActivateCodes

IsFifo(ev) == ev.ep \in {"FifoWrite", "FifoRead"}

\* C10 as stated: the session starts Closed, a mode-activation command is sent
\* only on a session opened and initialized since it was last Closed, and
\* transfer_io moves FIFO data only on a session in ModeActive
C10_LifecycleAsStated ==
    /\ life = "Closed" <=> ~handle_open
    /\ \A i \in 1..Len(log) :
           /\ IsActivation(log[i]) => log[i].life \notin {"Closed", "Open"}
           /\ op = "transfer_io" /\ IsFifo(log[i]) => log[i].life = "ModeActive"

\* C10, amended: a new Device is Closed; nothing is transferred on a Closed
\* session; enter_io_mode and program send their mode-activation command only
\* after the table was decoded and the register read in the same call; the
\* activate_* calls send theirs, and transfer_io moves FIFO data, on any open
\* session, initialized or not
C10_Lifecycle ==
    /\ ~handle_open /\ life = "Closed"
    /\ [](/\ life = "Closed" <=> ~handle_open
          /\ \A i \in 1..Len(log) :
                 /\ IsWire(log[i]) => log[i].life # "Closed"
                 /\ IsActivation(log[i]) /\ op \in {"enter_io_mode", "program"}
                        => /\ log[i].life \in {"Initialized", "ModeActive"}
                           /\ \E j \in Decodes : j < i
                           /\ \E k \in 1..(i - 1) : IsDecrypt(log[k])
          /\ op \in {"activate", "transfer_io"} /\ ~handle_open
                 => result # "ok" /\ Wire = << >>
          /\ op = "activate" /\ result = "ok" => life = "ModeActive")

\* an activate_* call has sent its command on a session that was opened and
\* never initialized
C10_Witness ==
    /\ op = "activate"
    /\ result = "ok"
    /\ \E i \in 1..Len(log) : IsActivation(log[i]) /\ log[i].life = "Open"
    /\ table = ZeroTable
    /\ config = Config_new

-----------------------------------------------------------------------------
(* C11 *)

\* a step in which Device::exit_io_mode runs
ExitCall == op = "none" /\ op' = "exit_io_mode"

\* the log of an exit_io_mode on an open session: handshake rounds, then 01,00,
\* then the close of the transport, each present only if all before it succeeded
ExitOrder(events) ==
    /\ \A i \in 1..Len(events) :
           /\ events[i].ep \in {"Command", "Sync", "Handle"}
           /\ events[i].ep = "Command" => events[i].data \in { << 0 >>, << 1, 0 >> }
           /\ events[i].ep = "Command" /\ events[i].data = << 1, 0 >> =>
                  /\ i >= 3
                  /\ events[i - 2].ep = "Command" /\ events[i - 2].data = << 0 >>
                  /\ events[i - 2].ok
                  /\ events[i - 1].ep = "Sync" /\ events[i - 1].ok
                  /\ events[i - 1].data # << 0 >>
                  /\ \A j \in 1..(i - 1) : events[j].data # << 1, 0 >>
           /\ events[i].ep = "Handle" =>
                  /\ events[i].dir = "close"
                  /\ i = Len(events)
                  /\ i >= 4
                  /\ events[i - 1].ep = "Command" /\ events[i - 1].data = << 1, 0 >>
                  /\ events[i - 1].ok

\* C11: exit_io_mode on a session that is not open returns success without any
\* transport I/O; on an open session it issues command_active (the handshake,
\* then 01,00) and then closes the transport, in that order; whenever it returns
\* success the session is Closed
C11_ExitIoMode ==
    [][ExitCall =>
          /\ ~handle_open =>
                 /\ result' = "ok"
                 /\ log' = << >>
                 /\ UNCHANGED session_vars
          /\ handle_open =>
                 /\ ExitOrder(log')
                 /\ ~handle_open' <=> log' # << >> /\ log'[Len(log')].ep = "Handle"
                 /\ result' = "ok" => log' # << >> /\ log'[Len(log')].ep = "Handle"
          /\ result' = "ok" => ~handle_open' /\ life' = "Closed"
          /\ UNCHANGED << config, table, encode_index, decode_index >>
      ]_vars

\* exit_io_mode has waited for a late reply, sent 01,00 and closed the transport
C11_Witness ==
    /\ op = "exit_io_mode"
    /\ result = "ok"
    /\ Len(log) = 6
    /\ log[5].data = << 1, 0 >>
    /\ log[6].ep = "Handle"
    /\ ~handle_open

-----------------------------------------------------------------------------
(* C12 *)

\* a step in which Device::read_config runs on its own
ReadCall == op = "none" /\ op' = "read_config"

\* the two events before position i are a handshake that succeeded
HandshakeBefore(events, i) ==
    /\ i >= 3
    /\ events[i - 2].ep = "Command" /\ events[i - 2].data = << 0 >> /\ events[i - 2].ok
    /\ events[i - 1].ep = "Sync" /\ events[i - 1].ok /\ events[i - 1].data # << 0 >>

\* the events before position i are handshake rounds only
OnlyProbesBefore(events, i) ==
    \A j \in 1..(i - 1) :
        \/ events[j].ep = "Command" /\ events[j].data = << 0 >>
        \/ events[j].ep = "Sync"

\* the log of a read_config: handshake, 01,01, the read of 64 words, handshake,
\* 01,00, the decryption, each present only if all before it succeeded
ReadOrder(events) ==
    \A i \in 1..Len(events) :
        /\ i < Len(events) => events[i].ok
        /\ events[i].ep \in {"Command", "Sync", "FifoRead", "Host"}
        /\ events[i].ep = "Command" => events[i].data \in { << 0 >>, << 1, 1 >>, << 1, 0 >> }
        /\ events[i].ep = "Command" /\ events[i].data = << 1, 1 >> =>
               HandshakeBefore(events, i) /\ OnlyProbesBefore(events, i)
        /\ events[i].ep = "FifoRead" =>
               /\ i >= 2
               /\ events[i - 1].ep = "Command" /\ events[i - 1].data = << 1, 1 >>
               /\ events[i].ok => Len(events[i].data) = WORD_COUNT
        /\ events[i].ep = "Command" /\ events[i].data = << 1, 0 >> =>
               /\ HandshakeBefore(events, i)
               /\ \E j \in 1..(i - 1) :
                      /\ events[j].ep = "FifoRead"
                      /\ \A k \in (j + 1)..(i - 1) :
                             events[k].ep = "Sync" \/ events[k].data = << 0 >>
        /\ events[i].ep = "Host" =>
               /\ events[i].dir = "decrypt"
               /\ i = Len(events)
               /\ events[i - 1].ep = "Command" /\ events[i - 1].data = << 1, 0 >>
               /\ \E j \in 1..(i - 1) :
                      /\ events[j].ep = "FifoRead"
                      /\ events[i].data =
                             decrypt_words(table, decode_index, events[j].data).buffer

\* C12: a configuration read performs, in order, the handshake, 01,01, a 64-word
\* read from the FIFO-read channel, command_active and the decryption of the 64
\* words, and only then replaces the local register wholesale with the decrypted
\* words; if a step before the decryption fails, the local register and the decode
\* cursor are what they were before the call
C12_ReadConfig ==
    [][ReadCall =>
          /\ ReadOrder(log')
          /\ result' = "ok" =>
                 /\ log' # << >>
                 /\ log'[Len(log')].ep = "Host"
                 /\ config' = SeqToWords(log'[Len(log')].data)
                 /\ decode_index' = (decode_index + WORD_COUNT) % 16
          /\ result' # "ok" =>
                 /\ \A i \in 1..Len(log') : log'[i].ep # "Host"
                 /\ config' = config
                 /\ decode_index' = decode_index
          /\ UNCHANGED << handle_open, table, encode_index >>
      ]_vars

\* read_config has failed after the 64 words were read, at the handshake or the
\* write of command_active, on a session whose register was never read
C12_Witness ==
    /\ op = "read_config"
    /\ result = "Usb"
    /\ \E i \in 1..Len(log) : log[i].ep = "FifoRead" /\ log[i].ok
    /\ config = Config_new
    /\ table # ZeroTable

-----------------------------------------------------------------------------
(* C13 *)

\* a step in which Device::write_config runs on its own
WriteCall == op = "none" /\ op' = "write_config"

\* the log of a write_config: handshake, the encryption of a copy of the
\* register, 01,11, one write of the 64 encrypted words, handshake, 01,00
WriteOrder(events) ==
    \A i \in 1..Len(events) :
        /\ i < Len(events) => events[i].ok
        /\ events[i].ep \in {"Command", "Sync", "FifoWrite", "Host"}
        /\ events[i].ep = "Command" => events[i].data \in { << 0 >>, << 1, 17 >>, << 1, 0 >> }
        /\ events[i].ep = "Host" =>
               /\ events[i].dir = "encrypt"
               /\ HandshakeBefore(events, i) /\ OnlyProbesBefore(events, i)
               /\ events[i].data =
                      encrypt_words(table, encode_index, WordsToSeq(config)).buffer
        /\ events[i].ep = "Command" /\ events[i].data = << 1, 17 >> =>
               i >= 2 /\ events[i - 1].ep = "Host"
        /\ events[i].ep = "FifoWrite" =>
               /\ i >= 3
               /\ events[i - 1].ep = "Command" /\ events[i - 1].data = << 1, 17 >>
               /\ events[i].data = events[i - 2].data
               /\ Len(events[i].data) = WORD_COUNT
        /\ events[i].ep = "Command" /\ events[i].data = << 1, 0 >> =>
               /\ HandshakeBefore(events, i)
               /\ \E j \in 1..(i - 1) :
                      /\ events[j].ep = "FifoWrite"
                      /\ \A k \in (j + 1)..(i - 1) :
                             events[k].ep = "Sync" \/ events[k].data = << 0 >>

\* C13: a configuration write performs, in order, the handshake, 01,11, one bulk
\* write of all 64 encrypted words on the FIFO-write channel and command_active;
\* it encrypts a copy, so the local register holds the same words after the call
\* as before it, on success and on failure
C13_WriteConfig ==
    [][WriteCall =>
          /\ WriteOrder(log')
          /\ config' = config
          /\ result' = "ok" =>
                 /\ log' # << >>
                 /\ log'[Len(log')].ep = "Command"
                 /\ log'[Len(log')].data = << 1, 0 >>
          /\ UNCHANGED << handle_open, table, decode_index >>
      ]_vars

\* write_config has succeeded on a register read from the device, and what it
\* wrote is not the plaintext of the register
C13_Witness ==
    /\ op = "write_config"
    /\ result = "ok"
    /\ config # Config_new
    /\ \E i \in 1..Len(log) :
           /\ log[i].ep = "FifoWrite"
           /\ log[i].ok
           /\ log[i].data # WordsToSeq(config)

-----------------------------------------------------------------------------
(* C14 *)

\* a step in which one setter of the register runs
SetCall == op = "none" /\ op' = "set"

\* the fields the register names, and what each getter reads
FieldNames ==
    {"vericomm_clock_high_delay", "vericomm_clock_low_delay", "vericomm_isv",
     "vericomm_clock_check_enabled", "veri_sdk_channel_selector", "mode_selector",
     "flash_begin_block_addr", "flash_begin_cluster_addr",
     "flash_read_end_block_addr", "flash_read_end_cluster_addr", "licence_key"}

Field(name, words) ==
    CASE name = "vericomm_clock_high_delay"    -> vericomm_clock_high_delay(words)
      [] name = "vericomm_clock_low_delay"     -> vericomm_clock_low_delay(words)
      [] name = "vericomm_isv"                 -> vericomm_isv(words)
      [] name = "vericomm_clock_check_enabled" -> vericomm_clock_check_enabled(words)
      [] name = "veri_sdk_channel_selector"    -> veri_sdk_channel_selector(words)
      [] name = "mode_selector"                -> mode_selector(words)
      [] name = "flash_begin_block_addr"       -> flash_begin_block_addr(words)
      [] name = "flash_begin_cluster_addr"     -> flash_begin_cluster_addr(words)
      [] name = "flash_read_end_block_addr"    -> flash_read_end_block_addr(words)
      [] name = "flash_read_end_cluster_addr"  -> flash_read_end_cluster_addr(words)
      [] name = "licence_key"                  -> licence_key(words)

\* the values a field can hold
FieldRange(name) ==
    CASE name = "vericomm_isv"                 -> 0..15
      [] name = "vericomm_clock_check_enabled" -> BOOLEAN
      [] name \in {"veri_sdk_channel_selector", "mode_selector"} -> 0..255
      [] OTHER                                 -> 0..WordMax

\* C14: for every field setter of the register and every value in the field's
\* range, reading the field after setting it returns the written value, and every
\* other named field reads the same as before the set
C14_SetThenGet ==
    [][SetCall =>
          /\ arg'[1] \in FieldNames
          /\ arg'[2] \in FieldRange(arg'[1]) => Field(arg'[1], config') = arg'[2]
          /\ \A g \in FieldNames \ {arg'[1]} : Field(g, config') = Field(g, config)
          /\ security_key(config') = licence_key(config')
      ]_vars

\* the mode selector was set on a register whose channel selector is not zero,
\* and both read back
C14_Witness ==
    /\ op = "set"
    /\ arg = << "mode_selector", 165 >>
    /\ mode_selector(config) = 165
    /\ veri_sdk_channel_selector(config) = 52

-----------------------------------------------------------------------------
(* C15 *)

\* where a field lives: its word, its lowest bit and its width in bits
FieldWord(name) ==
    CASE name = "vericomm_clock_high_delay"    -> 0
      [] name = "vericomm_clock_low_delay"     -> 1
      [] name \in {"vericomm_isv", "vericomm_clock_check_enabled"} -> 2
      [] name \in {"veri_sdk_channel_selector", "mode_selector"}   -> 3
      [] name = "flash_begin_block_addr"       -> 4
      [] name = "flash_begin_cluster_addr"     -> 5
      [] name = "flash_read_end_block_addr"    -> 6
      [] name = "flash_read_end_cluster_addr"  -> 7
      [] name = "licence_key"                  -> 31

FieldLow(name) ==
    CASE name = "vericomm_isv"  -> 4
      [] name = "mode_selector" -> 8
      [] OTHER                  -> 0

FieldWidth(name) ==
    CASE name = "vericomm_isv"                 -> 4
      [] name = "vericomm_clock_check_enabled" -> 1
      [] name \in {"veri_sdk_channel_selector", "mode_selector"} -> 8
      [] OTHER                                 -> 16

\* the word with the bits low .. low + width - 1 cleared
Outside(word, low, width) ==
    word - (((word \div (2 ^ low)) % (2 ^ width)) * (2 ^ low))

\* C15: every field setter of the register changes only the bits of its own
\* field: all other bits of the same word, reserved bits included, and all other
\* words keep the values they had
C15_OwnBitsOnly ==
    [][SetCall =>
          \A w \in 0..(WORD_COUNT - 1) :
              IF w = FieldWord(arg'[1])
              THEN Outside(config'[w], FieldLow(arg'[1]), FieldWidth(arg'[1]))
                       = Outside(config[w], FieldLow(arg'[1]), FieldWidth(arg'[1]))
              ELSE config'[w] = config[w]
      ]_vars

\* the ISV nibble was set to 5 on the register whose words all held 0xaaaa, and
\* word 2 is left as 0x0050: bits 1..3 and 8..15 of the old word are gone
C15_Witness ==
    /\ op = "set"
    /\ arg = << "vericomm_isv", 5 >>
    /\ config[3] = 43690
    /\ config[2] = 80

-----------------------------------------------------------------------------
(* C16 *)

\* the value of each hexadecimal digit
HexTable ==
    [b \in {"0", "1", "2", "3", "4", "5", "6", "7", "8", "9",
            "a", "b", "c", "d", "e", "f", "A", "B", "C", "D", "E", "F"} |->
        CASE b = "0" -> 0 [] b = "1" -> 1 [] b = "2" -> 2 [] b = "3" -> 3
          [] b = "4" -> 4 [] b = "5" -> 5 [] b = "6" -> 6 [] b = "7" -> 7
          [] b = "8" -> 8 [] b = "9" -> 9
          [] b \in {"a", "A"} -> 10 [] b \in {"b", "B"} -> 11
          [] b \in {"c", "C"} -> 12 [] b \in {"d", "D"} -> 13
          [] b \in {"e", "E"} -> 14 [] b \in {"f", "F"} -> 15]

\* the part of a line before its first space or tab
Cut(line) ==
    IF \E i \in 1..Len(line) : line[i] \in {" ", "\t"}
    THEN SubSeq(line, 1,
                (CHOOSE i \in 1..Len(line) :
                    /\ line[i] \in {" ", "\t"}
                    /\ \A j \in 1..(i - 1) : line[j] \notin {" ", "\t"}) - 1)
    ELSE line

\* the line holds only digits and separators before its first space or tab
LineValid(line) ==
    \A i \in 1..Len(Cut(line)) :
        Cut(line)[i] = "_" \/ Cut(line)[i] \in DOMAIN HexTable

\* the k-th digit of a run of digits counted from its end, zero beyond its start
DigitFromEnd(digits, k) ==
    IF k <= Len(digits) THEN HexTable[digits[Len(digits) + 1 - k]] ELSE 0

\* a run of digits read high nibble first into 16 bits: its last four digits
RunValue(digits) ==
    DigitFromEnd(digits, 1) + (16 * DigitFromEnd(digits, 2))
        + (256 * DigitFromEnd(digits, 3)) + (4096 * DigitFromEnd(digits, 4))

Separators(text) == { i \in 1..Len(text) : text[i] = "_" }

\* where the k-th run of digits of the text starts and where it ends
RunStart(text, k) ==
    IF k = 1 THEN 1
    ELSE (CHOOSE i \in Separators(text) :
             Cardinality({ j \in Separators(text) : j < i }) = k - 2) + 1

RunEnd(text, k) ==
    IF k <= Cardinality(Separators(text))
    THEN (CHOOSE i \in Separators(text) :
             Cardinality({ j \in Separators(text) : j < i }) = k - 1) - 1
    ELSE Len(text)

\* the words of a text of digits and separators: one per separator, and one
\* more if digits follow the last separator
RunCount(text) ==
    Cardinality(Separators(text))
        + (IF Len(text) > 0 /\ text[Len(text)] # "_" THEN 1 ELSE 0)

TextWords(text) ==
    [k \in 1..RunCount(text) |->
        RunValue(SubSeq(text, RunStart(text, k), RunEnd(text, k)))]

RECURSIVE FileWords(_)
FileWords(lines) ==
    IF lines = << >> THEN << >>
    ELSE TextWords(Cut(Head(lines))) \o FileWords(Tail(lines))

\* what the statement says load_bitfile returns for a readable file
Decoded(file) ==
    IF (\A i \in 1..Len(file.lines) : LineValid(file.lines[i]))
           /\ FileWords(file.lines) # << >>
    THEN [err |-> "ok", data |-> FileWords(file.lines)]
    ELSE [err |-> "InvalidBitfile", data |-> << >>]

\* C16: the bitstream decoder reads each line on its own: digits accumulate high
\* nibble first into the current 16-bit word, '_' emits the word and starts a new
\* one, a space or tab ends the line, a line ending with digits accumulated emits
\* them as a last word; so "1a_2b_" gives [0x1a, 0x2b], "1a2b" gives [0x1a2b]
\* and "1a z" gives [0x1a]; any other byte before the line's first space or tab,
\* or an empty result, gives invalid-bitstream and no words
C16_Decoder ==
    op = "load_bitfile" /\ arg.readable =>
        /\ result = Decoded(arg).err
        /\ out.w = Decoded(arg).data
        /\ arg = FileTwoWords => result = "ok" /\ out.w = << 26, 43 >>
        /\ arg.lines = << << "1", "a", "2", "b" >> >> => result = "ok" /\ out.w = << 6699 >>
        /\ arg = FileBlankThenByte => result = "ok" /\ out.w = << 26 >>
        /\ arg \in {FileNotHex, FileEmpty} => result = "InvalidBitfile" /\ out.w = << >>

\* a line cut by a space after two digits was decoded to the one word 0x1a
C16_Witness ==
    /\ op = "load_bitfile"
    /\ arg = FileBlankThenByte
    /\ result = "ok"
    /\ out.w = << 26 >>

-----------------------------------------------------------------------------
(* C17 *)

\* the g-th 4-bit group of a 16-bit value, g from 0
Group(value, g) == (value \div (16 ^ g)) % 16

\* the 2-bit amount the key holds at bits 4g and 4g + 1
Amount(key, g) == (key \div (16 ^ g)) % 4

\* a customer-id group brought to bits 4..7, shifted right by the amount and
\* folded with (x >> 4) | (x & 0xf): the group rotated right within its 4 bits
Folded(group, amount) ==
    ((group \div (2 ^ amount)) + ((group % (2 ^ amount)) * (2 ^ (4 - amount)))) % 16

\* the accumulator of the reference transform after its shift right by 11:
\* the folded groups, placed at bits 16, 20, 24 and 28, are at bits 5, 9, 13, 17
Accumulator(key, id) ==
      (Folded(Group(id, 0), Amount(key, 0)) * (2 ^ 5))
    + (Folded(Group(id, 1), Amount(key, 1)) * (2 ^ 9))
    + (Folded(Group(id, 2), Amount(key, 2)) * (2 ^ 13))
    + (Folded(Group(id, 3), Amount(key, 3)) * (2 ^ 17))

\* its halves OR-folded and the low 16 bits complemented
Reference(key, id) ==
    WordMax - OrBits(Accumulator(key, id) \div (2 ^ 16),
                     Accumulator(key, id) % (2 ^ 16), 16)

\* the key with every bit cleared except bits 0-1, 4-5, 8-9, 12-13
AmountBits(key) ==
    Amount(key, 0) + (16 * Amount(key, 1)) + (256 * Amount(key, 2))
        + (4096 * Amount(key, 3))

\* C17: licence_gen(security_key, customer_id) equals the reference transform on
\* 16-bit inputs; the result depends on the security key only through bits 0-1,
\* 4-5, 8-9 and 12-13, and licence_gen(k, 0) = 0xFFFF for every k
C17_LicenceGen ==
    op = "licence_gen" =>
        /\ out.w = << Reference(arg[1], arg[2]) >>
        /\ out.w = << licence_gen(AmountBits(arg[1]), arg[2]) >>
        /\ arg[2] = 0 => out.w = << 65535 >>

\* the licence of customer 0xa5c3 under a key whose four amounts are 1, 2, 3, 0
\* and whose other bits are all set
C17_Witness ==
    /\ op = "licence_gen"
    /\ arg = << 52428 + 1 + (16 * 2) + (256 * 3), 42435 >>
    /\ out.w # << 65535 >>

-----------------------------------------------------------------------------
(* C18 *)

\* what holds of the listener whatever the interleaving: the drop returns only
\* after the flag was cleared and the polling thread has ended, no event is
\* taken for the callback once the registration is gone, and nothing is
\* delivered after the drop has returned
DropJoinsThread ==
    /\ hotplug.dropper = "dropped" =>
           /\ ~hotplug.running
           /\ ~hotplug.registered
           /\ hotplug.poller = "exited"
    /\ \A i \in 1..Len(hotplug.delivered) : hotplug.delivered[i].during # "dropped"

\* once drop has begun it returns, with the polling thread ended
DropReturns == (hotplug.dropper = "taken") ~> (hotplug.dropper = "dropped")

\* C18: cancelling the hotplug listener sets the shutdown flag, the polling
\* thread observes it and terminates, and the thread is joined before the drop
\* returns; no arrival or departure callback is invoked once the cancellation has
\* started, under every interleaving of the dropping thread with the polling
\* thread's event handling
C18_NoCallbackAfterCancel ==
    /\ DropJoinsThread
    /\ \A i \in 1..Len(hotplug.delivered) : hotplug.delivered[i].during = "held"

\* the callback ran after drop had taken the registration: the event was taken
\* for it before, and the polling thread reached the call afterwards
C18_Witness ==
    /\ hotplug.delivered # << >>
    /\ hotplug.delivered[Len(hotplug.delivered)].during \in {"taken", "stored"}
    /\ hotplug.dropper = "dropped"

-----------------------------------------------------------------------------
(* C19 *)

\* a step in which the session is closed by UsbDevice::close, or dropped
CloseCall == op = "none" /\ op' = "close"

DropCall == op = "none" /\ op' = "drop"

\* the handle was released: the one event of the call, true unless
\* release_interface failed with an error other than NoDevice
Released(events) ==
    /\ Len(events) = 1
    /\ events[1].ep = "Handle"
    /\ events[1].dir = "close"

\* what close and drop share: the session is Closed afterwards whatever the
\* outcome, a Closed session is left alone, an open one releases its handle
ClosesHandle ==
    /\ ~handle_open'
    /\ life' = "Closed"
    /\ ~handle_open => result' = "ok" /\ log' = << >>
    /\ handle_open => Released(log')

\* C19 as stated: a 'no device' result of releasing the interface is a success
\* and every other release failure is returned to the caller, on an explicit
\* close and on the close performed when the session is dropped
C19_CloseAsStated ==
    [][CloseCall \/ DropCall =>
          /\ ClosesHandle
          /\ handle_open => (result' = "ok" <=> log'[1].ok)
      ]_vars

\* C19: an explicit close treats a 'no device' result of releasing the interface
\* as success and returns every other release failure; the close performed when
\* the session is dropped discards its result, so no failure of it reaches
\* anyone; after either the session is Closed whatever the outcome, and closing a
\* Closed session is a no-op success
C19_Close ==
    [][/\ CloseCall =>
              /\ ClosesHandle
              /\ handle_open => (result' = "ok" <=> log'[1].ok)
              /\ result' \in {"ok", "Usb"}
              /\ UNCHANGED << config, table, encode_index, decode_index >>
       /\ DropCall =>
              /\ ClosesHandle
              /\ result' = "ok"
      ]_vars

\* an open session was dropped, release_interface failed with an error other
\* than NoDevice, and nothing came of it
C19_Witness ==
    /\ op = "drop"
    /\ result = "ok"
    /\ Released(log)
    /\ ~log[1].ok
    /\ ~handle_open

-----------------------------------------------------------------------------
(* C20 *)

BulkRunning == transfer.pc \in {"loop", "call"}

BulkReturned == op \in {"read_bytes", "write_bytes"} /\ transfer.pc = "done"

\* what holds of a bulk call at every moment
BulkInvariant ==
    /\ transfer.offset <= transfer.len
    /\ BulkRunning => result = "none" /\ handle_open
    /\ BulkReturned =>
           /\ result \in {"ok", "UnexpectedResponse", "Usb", "DeviceNotOpen"}
           /\ result = "ok" => transfer.offset = transfer.len
           /\ result = "UnexpectedResponse" => transfer.calls > 0 /\ transfer.moved = 0
           /\ result = "Usb" => transfer.calls > 0 /\ transfer.moved = -1
           /\ result = "DeviceNotOpen" <=> ~handle_open
           /\ result = "DeviceNotOpen" => transfer.calls = 0

\* a round of the loop either advances the offset by what was moved, at least
\* one byte, or returns an error at once
BulkRound ==
    transfer.pc = "call" =>
        /\ transfer'.calls = transfer.calls + 1
        /\ \/ /\ transfer'.pc = "loop"
              /\ transfer'.moved >= 1
              /\ transfer'.offset = transfer.offset + transfer'.moved
              /\ result' = "none"
           \/ /\ transfer'.pc = "done"
              /\ transfer'.moved < 1
              /\ transfer'.offset = transfer.offset
              /\ result' \in {"UnexpectedResponse", "Usb"}

\* C20: a bulk read or bulk write returns success only when the whole buffer has
\* been transferred, resuming after every short transfer at the offset reached; a
\* transfer that reports zero bytes is an unexpected-response error and a
\* transport error is returned at once, so the loop always terminates; on a
\* session that is not open the call fails with device-not-open without any
\* transfer
C20_BulkLoop ==
    /\ []BulkInvariant
    /\ [][BulkRound]_vars
    /\ BulkRunning ~> BulkReturned

\* a buffer of three bytes went out in two transfers, the second resuming
\* where the short first one stopped
C20_Witness ==
    /\ op = "write_bytes"
    /\ result = "ok"
    /\ transfer.len = 3
    /\ transfer.calls = 2
    /\ transfer.offset = 3

-----------------------------------------------------------------------------
(* C21 *)

\* the command codes of the call, in order
Codes == SelectSeq(log, IsCode)

\* how many command codes the call has written before its event i
CodesBefore(i) == Len(SelectSeq(SubSeq(log, 1, i - 1), IsCode))

\* the command codes of a whole upload: read-encryption-table and the read of
\* the register by initialize, activate-programmer, the command_active after the
\* chunks, the read of the register again
ProgramCodes ==
    << << 1, 15 >>, << 1, 1 >>, << 1, 0 >>, << 1, 2 >>, << 1, 0 >>, << 1, 1 >>,
       << 1, 0 >> >>

DecodeErrors == {"Io", "InvalidBitfile"}

\* C21: Programmer::program decodes the bitstream, opens and initializes the
\* session, encrypts the whole decoded sequence, sends activate-programmer
\* (01,02), writes all the FIFO chunks, sends command_active (01,00), reads the
\* whole register (01,01) and checks the programmed bit, in this order; a step
\* that fails ends the call with its error, and no command or data of a later
\* step is sent
C21_ProgramOrder ==
    op = "program" =>
        /\ result \in DecodeErrors => log = << >>
        /\ \A i \in 1..(Len(log) - 1) : log[i].ok
        /\ log # << >> /\ ~log[Len(log)].ok => result \notin {"ok", "NotProgrammed"}
        /\ Len(Codes) <= Len(ProgramCodes)
        /\ \A k \in 1..Len(Codes) : Codes[k].data = ProgramCodes[k]
        /\ \A i \in 1..Len(log) :
               /\ log[i].ep = "Handle" => i = 1 /\ log[i].dir = "open"
               /\ IsDecode(log[i]) => CodesBefore(i) = 1 /\ log[i - 1].ep = "FifoRead"
               /\ IsEncrypt(log[i]) => CodesBefore(i) = 3 /\ IsDecrypt(log[i - 1])
               /\ IsFifoWrite(log[i]) => CodesBefore(i) = 4
               /\ log[i].ep = "FifoRead" => CodesBefore(i) \in {1, 2, 6}
               /\ IsDecrypt(log[i]) => CodesBefore(i) \in {3, 7}
        /\ Len(Codes) >= 4 => Len(SelectSeq(log, IsEncrypt)) = 1
        /\ Len(Codes) >= 5 => Concat(FifoWrites) = Bitstream
        /\ result \in {"ok", "NotProgrammed"} =>
               Len(Codes) = 7 /\ Len(RegistersRead) = 2
        /\ result = "ok" <=>
               Len(RegistersRead) = 2
                   /\ is_programmed(SeqToWords(RegistersRead[2].data))

\* an upload stopped by the failure of a chunk: the programmer was activated, a
\* chunk went out, the next one failed, and no command followed
C21_Witness ==
    /\ op = "program"
    /\ Len(Codes) = 4
    /\ Len(FifoWrites) = 2
    /\ ~FifoWrites[2].ok
    /\ result = "Usb"

-----------------------------------------------------------------------------
(* C22 *)

\* Programmer::program went through the whole upload
Uploaded == op = "program" /\ result \in {"ok", "NotProgrammed"}

\* the words decoded from the file the call was given
Plain == load_bitfile(arg).data

\* the words written on the FIFO-write channel, in the order of the writes
Written == Concat(FifoWrites)

\* the encode cursor when the call encrypted the bitstream: nothing else of the
\* call moves it
EncodeStart == (encode_index + (16 * Len(Plain)) - Len(Plain)) % 16

\* C22: in an upload that went through, every chunk on the FIFO-write channel
\* is non-empty (also with a FIFO depth of 0), all chunks but the last have the
\* same length, and the chunks in the order written are the whole bitstream
\* encrypted as one keystream: word k is XORed with the key at index
\* (c0 + k) mod 16 wherever the chunks are cut, nothing dropped, duplicated or
\* reordered
C22_ChunksAreCiphertext ==
    Uploaded =>
        /\ \A i \in 1..Len(FifoWrites) : ChunkSizes[i] >= 1
        /\ \A i, j \in 1..(Len(FifoWrites) - 1) : ChunkSizes[i] = ChunkSizes[j]
        /\ Len(Written) = Len(Plain)
        /\ \A k \in 0..(Len(Plain) - 1) :
               Written[k + 1] = Xor16(Plain[k + 1], table[(EncodeStart + k) % 16])

\* seven words went to a device advertising a depth of 0, one word per chunk
C22_Witness ==
    /\ Uploaded
    /\ Depth = 0
    /\ ChunkSizes = << 1, 1, 1, 1, 1, 1, 1 >>
    /\ Written # Plain

-----------------------------------------------------------------------------
(* C23 *)

\* enter_io_mode returned Ok
Entered == op = "enter_io_mode" /\ result = "ok"

\* the register the call pushed to the device: the words of its one FIFO write
\* with the keystream taken off again (the encode cursor is 0 after initialize)
Pushed == [k \in 1..WORD_COUNT |-> Xor16(FifoWrites[1].data[k], table[(k - 1) % 16])]

\* word 2 with the ISV nibble (bits 4-7) and the clock-check bit (bit 0) from
\* the settings and every other bit as read
Word2Expected(old, settings) ==
    ((old \div 256) * 256) + ((settings.vericomm_isv % 16) * 16)
        + (((old % 16) \div 2) * 2) + (IF settings.clock_check_enabled THEN 1 ELSE 0)

\* the register read by the call with the changes the settings ask for
Expected(settings) ==
    [k \in 1..WORD_COUNT |->
        IF k = 1 THEN settings.clock_high_delay
        ELSE IF k = 2 THEN settings.clock_low_delay
        ELSE IF k = 3 THEN Word2Expected(RegistersRead[1].data[3], settings)
        ELSE IF k = 4 THEN (RegistersRead[1].data[4] % 256) + (settings.mode_selector * 256)
        ELSE IF k = 32 /\ settings.has_licence_key THEN settings.licence_key
        ELSE RegistersRead[1].data[k]]

\* the commands of a whole enter_io_mode: the table and the register read by
\* initialize, the configuration write with its command_active, activate-VeriComm
EnterCodes ==
    << << 1, 15 >>, << 1, 1 >>, << 1, 0 >>, << 1, 17 >>, << 1, 0 >>, << 1, 3 >> >>

\* the configuration write is complete before activate-VeriComm, the last
\* command of the call
EnterOrder ==
    /\ [k \in 1..Len(Codes) |-> Codes[k].data] = EnterCodes
    /\ log[Len(log)].data = << 1, 3 >>
    /\ Len(FifoWrites) = 1
    /\ \A i \in 1..Len(log) : IsFifoWrite(log[i]) => CodesBefore(i) = 4

\* C23: when enter_io_mode succeeds, the register pushed to the device is the
\* register read during the call with exactly these changes: clock high delay,
\* clock low delay, ISV nibble, clock-check-enable and mode selector from the
\* settings, the licence key word only if the settings carry one; the
\* configuration write, its command_active included, is complete before
\* activate-VeriComm (01,03), which is the last command of the call
C23_EnterPushesSettings ==
    Entered => EnterOrder /\ Pushed = Expected(arg)

\* what holds of the claim: the order of the commands, and every word of the
\* pushed register but word 2
C23_AllButWord2 ==
    Entered =>
        /\ EnterOrder
        /\ \A k \in (1..WORD_COUNT) \ {3} : Pushed[k] = Expected(arg)[k]
        /\ Pushed = WordsToSeq(config)

\* the device's word 2 was 0xaaaa, the settings ask for ISV 5 with the clock
\* check: 0x0051 is pushed where the nibble and the bit alone give 0xaa5b
C23_Witness ==
    /\ Entered
    /\ RegistersRead[1].data[3] = 43690
    /\ arg.vericomm_isv = 5
    /\ Pushed[3] = 81
    /\ Expected(arg)[3] = 43611

-----------------------------------------------------------------------------
(* C24 *)

\* the positions in the call's log of the reads that followed the command
\* read-encryption-table
TableReads == { i \in 2..Len(log) : IsFetch(log[i - 1]) /\ log[i].ep = "FifoRead" }

\* the table as the device sent it, read at position i of the log
RawTable(i) == [k \in 0..(TABLE_LEN - 1) |-> log[i].data[k + 1]]

\* the events of the call after position j
After(j) == SubSeq(log, j + 1, Len(log))

\* C24: decode_table turns the raw table r into t with t[0] = NOT r[0] and
\* t[i] = r[i] XOR t[i-1] for i = 1..31, and leaves both cursors at zero;
\* initialize runs it exactly once per fetched table, after the table read
\* succeeded and before the configuration read decrypts anything, and not at
\* all when the table read fails
C24_DecodeTable ==
    /\ Cardinality(Decodes) <= 1
    /\ \A j \in Decodes :
           /\ j - 1 \in TableReads /\ log[j - 1].ok /\ log[j - 2].ok
           /\ table[0] = Not16(RawTable(j - 1)[0])
           /\ \A i \in 1..(TABLE_LEN - 1) :
                  table[i] = Xor16(RawTable(j - 1)[i], table[i - 1])
           /\ encode_index = Words(SelectSeq(After(j), IsEncrypt)) % 16
           /\ decode_index = Words(SelectSeq(After(j), IsDecrypt)) % 16
           /\ SelectSeq(SubSeq(log, 1, j), IsDecrypt) = << >>
    /\ \A i \in TableReads : log[i].ok => i + 1 \in Decodes
    /\ \A i \in Fetches : ~log[i].ok \/ i + 1 \notin TableReads \/ ~log[i + 1].ok
                               => Decodes = {} /\ result # "ok"
    /\ op \in Initializing /\ RegistersRead # << >> => Decodes # {}

\* initialize has succeeded: the table fetched was decoded once, the register
\* was decrypted with it, and both cursors stand at zero
C24_Witness ==
    /\ op = "initialize"
    /\ result = "ok"
    /\ Cardinality(Decodes) = 1
    /\ table[0] = Not16(RawA[0])
    /\ table[2] # Xor16(RawA[2], RawA[1])
    /\ encode_index = 0 /\ decode_index = 0

-----------------------------------------------------------------------------
(* C25 *)

TransferCall == op = "none" /\ op' = "transfer_io"

\* the steps of transfer_io in the order of the statement; a transfer of an
\* empty buffer makes no transfer call
TransferSteps ==
    << [ep |-> "Host", dir |-> "encrypt"], [ep |-> "FifoWrite", dir |-> "w"],
       [ep |-> "FifoRead", dir |-> "r"], [ep |-> "Host", dir |-> "decrypt"] >>

\* the steps a call's log shows, in order
StepsOf(events) == [i \in 1..Len(events) |-> [ep |-> events[i].ep, dir |-> events[i].dir]]

\* s is t with some of its elements left out, order kept
RECURSIVE IsSubsequence(_, _)
IsSubsequence(s, t) ==
    IF s = << >> THEN TRUE
    ELSE IF t = << >> THEN FALSE
    ELSE IF Head(s) = Head(t) THEN IsSubsequence(Tail(s), Tail(t))
    ELSE IsSubsequence(s, Tail(t))

\* C25: transfer_io encrypts write_buf, writes it to the FIFO, reads the FIFO
\* and decrypts read_buf, in this order; if the FIFO write or the FIFO read
\* fails (device-not-open on a Closed session included) the call returns that
\* error with read_buf not decrypted and the decode cursor unchanged, while
\* write_buf is left encrypted and the encode cursor has advanced by
\* len(write_buf) mod 16; after a failed FIFO write no FIFO read is attempted
C25_TransferIo ==
    [][ TransferCall =>
          /\ IsSubsequence(StepsOf(log'), TransferSteps)
          /\ IsEncrypt(log'[1])
          /\ out'.w = encrypt_words(table, encode_index, arg').buffer
          /\ encode_index' = (encode_index + Len(arg')) % 16
          /\ table' = table
          /\ \A i \in 1..(Len(log') - 1) : log'[i].ok
          /\ ~handle_open => result' = "DeviceNotOpen" /\ Len(log') = 1
          /\ ~log'[Len(log')].ok => result' = "Usb"
          /\ result' # "ok" =>
                /\ SelectSeq(log', IsDecrypt) = << >>
                /\ out'.r = << >>
                /\ decode_index' = decode_index
          /\ result' = "ok" =>
                /\ log'[Len(log')].ok
                /\ IsDecrypt(log'[Len(log')])
                /\ decode_index' = (decode_index + Len(out'.r)) % 16
          /\ \A i \in 1..Len(log') :
                IsFifoWrite(log'[i]) /\ ~log'[i].ok => i = Len(log')
      ]_vars

\* the FIFO read of a transfer of eight words failed: write_buf is encrypted,
\* the encode cursor has moved by eight, nothing was decrypted
C25_Witness ==
    /\ op = "transfer_io"
    /\ result = "Usb"
    /\ Len(arg) = 8
    /\ StepsOf(log) = SubSeq(TransferSteps, 1, 3)
    /\ out.w # arg
    /\ out.r = << >>
    /\ encode_index = 8
    /\ decode_index = 0

-----------------------------------------------------------------------------
(* C26 *)

ProgramCall == op = "none" /\ op' = "program"

\* C26: if decoding the bitstream fails (unreadable file, a byte that is not a
\* hex digit, an empty result), Programmer::program returns the error before
\* touching the session: the transport is not opened, no command or FIFO data
\* is sent, and the cipher table, the cursors and the local register are
\* unchanged
C26_DecodeFailureTouchesNothing ==
    [][ ProgramCall /\ (load_bitfile(arg').err # "ok" \/ result' \in DecodeErrors) =>
          /\ result' = load_bitfile(arg').err
          /\ result' = IF arg'.readable THEN "InvalidBitfile" ELSE "Io"
          /\ log' = << >>
          /\ handle_open' = handle_open
          /\ life' = life
          /\ table' = table
          /\ encode_index' = encode_index /\ decode_index' = decode_index
          /\ config' = config
      ]_vars

\* a file holding a byte that is not a hex digit was given to a programmer whose
\* session was never opened
C26_Witness ==
    /\ op = "program"
    /\ arg = FileNotHex
    /\ result = "InvalidBitfile"
    /\ log = << >>
    /\ ~handle_open
    /\ table = ZeroTable

-----------------------------------------------------------------------------
(* C27 *)

\* the calls that end with a session initialized or in IO mode
Preparing == {"initialize", "connect", "ensure_session", "enter_io_mode"}

\* the calls that encrypt or decrypt nothing but the register
RegisterOnly == Preparing \cup {"read_config", "write_config"}

BothAtZero == encode_index = 0 /\ decode_index = 0

\* every decryption and every encryption of the register is of 64 words
WholeRegister ==
    op \in RegisterOnly =>
        \A i \in 1..Len(log) :
            IsDecrypt(log[i]) \/ IsEncrypt(log[i]) => Len(log[i].data) = WORD_COUNT

\* C27: every successful configuration read decrypts exactly 64 words and every
\* configuration write encrypts exactly 64 words, so each leaves its cursor at
\* the value it had before the call; hence both cursors are 0 after a
\* successful initialize, and after a successful enter_io_mode both cursors are
\* 0 when the first transfer_io begins
C27_CursorsReturn ==
    /\ []WholeRegister
    /\ [](op \in Preparing /\ result = "ok" => BothAtZero)
    /\ [][ /\ ReadCall /\ result' = "ok" =>
                  /\ Len(SelectSeq(log', IsDecrypt)) = 1
                  /\ decode_index' = decode_index /\ encode_index' = encode_index
           /\ WriteCall /\ result' = "ok" =>
                  /\ Len(SelectSeq(log', IsEncrypt)) = 1
                  /\ encode_index' = encode_index /\ decode_index' = decode_index
           /\ op = "enter_io_mode" /\ result = "ok" /\ op' = "none" =>
                  encode_index' = 0 /\ decode_index' = 0
      ]_vars

\* enter_io_mode has succeeded on a session that was in IO mode already: the
\* register was decrypted and encrypted whole, once each, and both cursors are 0
C27_Witness ==
    /\ op = "enter_io_mode"
    /\ result = "ok"
    /\ log[1].life = "ModeActive"
    /\ Len(RegistersRead) = 1 /\ Len(RegistersRead[1].data) = WORD_COUNT
    /\ Len(SelectSeq(log, IsEncrypt)) = 1 /\ Len(Bitstream) = WORD_COUNT
    /\ BothAtZero

=============================================================================
